---- MODULE Spec2Model ----
(***************************************************************************)
(* Phishing e-mail detector: the serving path (backend/app.py), the model *)
(* store (ml/phishing_ml_model.py) and the retraining orchestrator        *)
(* (auto_retrain.py), as one state machine.                               *)
(*                                                                        *)
(* Processes that share a file system and a database:                     *)
(*   - the serving process, which loads the model artifact once when the  *)
(*     module is imported and then answers upload requests;               *)
(*   - the retrainer, which runs retrain_model stage by stage;            *)
(*   - ml/phishing_ml_model.py run as a script, which trains a model and  *)
(*     writes the artifact that the serving process loads.                *)
(* auto_retrain.py is at extras/auto_retrain/: the artifact it reads,     *)
(* backs up and writes is extras/models/simple_ml_model.pkl, another file *)
(* than the one the serving process loads.                                *)
(***************************************************************************)
EXTENDS Integers, Sequences, FiniteSets, TLC

VARIABLES
    now,            \* the clock, in seconds since the epoch (UTC)
    fs,             \* file system: path -> file
    emails,         \* table emails (+ its ml_predictions row), in id order
    srv,            \* serving process: module-level globals of app.py
    req,            \* the upload requests in flight
    resp,           \* the response that the step just taken has sent, if any
    retr,           \* retrainer process: the AutoRetrainer, its position in
                    \* retrain_model and the locals of the run
    hist,           \* observation of the current retrain run: the file system
                    \* when it started, the live file when BACKUP ran
    sched,          \* retrainer process started with --schedule: the loop of
                    \* schedule_retraining
    script,         \* the process running train_and_save
    call,           \* a function called on its own: its name and arguments
    ret             \* what the call returned

vars == <<now, fs, emails, srv, req, resp, retr, hist, sched, script, call, ret>>

(***************************************************************************)
(* Bounds of the model.                                                    *)
(***************************************************************************)
MaxTime == 1        \* the clock runs 0..MaxTime hours
MaxEmails == 4      \* rows in table emails
MaxRuns == 2        \* runs of retrain_model
ArtifactLen == 2    \* chunks joblib.dump writes for one artifact
MaxMinNew == 2      \* min_new_emails is drawn from 1..MaxMinNew
MaxIocs == 3        \* indicators in a list handed to the rule engine
MaxInFlight == 2    \* upload requests inside upload_email at one time
MaxSaves == 1       \* runs of train_and_save

MaxConfidence == 100 \* min(score, 100)

\* addresses in a text handed to extract_iocs
MaxIps == 3

\* the clock counts seconds; the local time of a host is UTC + offset, and
\* the offset changes by an hour when daylight saving time begins or ends
Hour == 3600
Day == 86400
Offsets == {-Hour, 0, Hour}

(***************************************************************************)
(* Values.                                                                 *)
(***************************************************************************)
None == "None"
NoGen == -1

Max(a, b) == IF a >= b THEN a ELSE b
Min(a, b) == IF a <= b THEN a ELSE b

RECURSIVE SumSeq(_)
SumSeq(s) == IF s = <<>> THEN 0 ELSE s[1] + SumSeq(Tail(s))

(***************************************************************************)
(* E-mails.  The text of an e-mail is represented by what the detection   *)
(* code reads of it: which listed phrases the lower-cased                 *)
(* subject + ' ' + body contains (a substring test), which suspicious     *)
(* top-level domains the lower-cased sender contains, how many 'http://'  *)
(* and 'https://' the body holds, whether the text contains 'http', and   *)
(* the indicators extract_from_email returned for it.                     *)
(***************************************************************************)
urgency_words ==
    <<"urgent", "immediately", "action required", "verify", "suspend",
      "limited time", "act now", "expires", "warning">>

suspicious_keywords ==
    <<"password", "credit card", "social security", "bank account",
      "verify account", "click here", "winner", "prize", "lottery",
      "inheritance", "suspended", "confirm">>

confidence_keywords ==
    <<"password", "credit card", "social security", "bank account",
      "verify account", "click here", "winner", "prize", "lottery">>

suspicious_tlds == <<".tk", ".ml", ".ga", ".cf", ".gq", ".xyz", ".top", ".click">>

\* sum(1 for word in words if word in combined_text)
HitCount(words, text) == Cardinality({i \in 1..Len(words) : words[i] \in text})

\* any(tld in sender for tld in suspicious_tlds)
SenderSuspicious(sender) == \E i \in 1..Len(suspicious_tlds) : suspicious_tlds[i] \in sender

Ioc(t, s) == [ioc_type |-> t, severity |-> s]

\* 'URGENT: Action Required - Verify Your Account Immediately' /
\* '... it will be suspended. Click here to confirm: http://secure-bank.tk/login'
\* from security@secure-bank.tk
PhishingMail ==
    [text   |-> {"urgent", "action required", "verify", "immediately",
                 "suspend", "suspended", "click here", "confirm"},
     sender |-> {".tk"},
     links  |-> 1,
     http   |-> TRUE,
     iocs   |-> <<Ioc("url", "high"), Ioc("email", "low"), Ioc("domain", "high")>>]

\* an ordinary message from alice@example.com without links
PlainMail ==
    [text   |-> {},
     sender |-> {},
     links  |-> 0,
     http   |-> FALSE,
     iocs   |-> <<Ioc("email", "low"), Ioc("domain", "low")>>]

Samples == <<PhishingMail, PlainMail>>
SampleIds == 1..Len(Samples)

(***************************************************************************)
(* Strings, and e-mails as the parser hands them over: a dict of strings  *)
(* in which any key may be absent.  Texts are over the printable ASCII     *)
(* characters, tab, newline, carriage return, form feed and the Latin-1    *)
(* supplement (U+00A0 to U+00FF); the character classes below are Python's *)
(* on that alphabet.                                                       *)
(***************************************************************************)
UpperCase == "ABCDEFGHIJKLMNOPQRSTUVWXYZ"
LowerCase == "abcdefghijklmnopqrstuvwxyz"

\* the cased letters of the supplement, each above its lower case
UpperLatin == "ÀÁÂÃÄÅÆÇÈÉÊËÌÍÎÏÐÑÒÓÔÕÖØÙÚÛÜÝÞ"
LowerLatin == "àáâãäåæçèéêëìíîïðñòóôõöøùúûüýþ"

\* its other letters and its numerals: alphanumeric, without an upper case
\* in the alphabet
OtherAlNum == "ª²³µ¹º¼½¾ßÿ"

\* U+00A0, the no-break space, and U+00AD, the soft hyphen: the two
\* characters of the supplement that str.isprintable rejects
NoBreakSpace == " "
SoftHyphen == "­"

NewLine == "\n"

\* the i-th character of s, "" outside it
Ch(s, i) == IF i >= 1 /\ i <= Len(s) THEN SubSeq(s, i, i) ELSE ""

CharsOf(s) == {Ch(s, i) : i \in 1..Len(s)}

\* str.isupper of a character
UpperChars == CharsOf(UpperCase) \cup CharsOf(UpperLatin)

LowerMap ==
    [c \in UpperChars |->
        Ch(LowerCase \o LowerLatin,
           CHOOSE i \in 1..Len(UpperCase \o UpperLatin) :
               Ch(UpperCase \o UpperLatin, i) = c)]

LowerChar(c) == IF c \in DOMAIN LowerMap THEN LowerMap[c] ELSE c

\* str.lower
RECURSIVE lower(_)
lower(s) ==
    IF Len(s) <= 1 THEN LowerChar(s)
    ELSE lower(SubSeq(s, 1, Len(s) \div 2)) \o lower(SubSeq(s, Len(s) \div 2 + 1, Len(s)))

\* p occurs in t at position i
At(t, i, p) == i >= 1 /\ i + Len(p) - 1 <= Len(t) /\ SubSeq(t, i, i + Len(p) - 1) = p

\* p in t
Contains(t, p) == \E i \in 1..(Len(t) - Len(p) + 1) : At(t, i, p)

\* t.count(p) from position i on: occurrences that do not overlap, from
\* the left
RECURSIVE CountFrom(_, _, _)
CountFrom(t, p, i) ==
    LET found == {j \in i..Len(t) : At(t, j, p)}
    IN  IF found = {} THEN 0
        ELSE LET first == CHOOSE j \in found : \A k \in found : j <= k
             IN  1 + CountFrom(t, p, first + Len(p))

StrCount(t, p) == CountFrom(t, p, 1)

\* dict.get(key, default)
Get(d, key, default) == IF key \in DOMAIN d THEN d[key] ELSE default

SeqToSet(s) == {s[i] : i \in 1..Len(s)}

\* what detect_phishing_simple and calculate_confidence_score read of
\* email_data (lines 103-105, 126, 144, 151 and 167-169, 182)
ReadEmail(email_data, iocs) ==
    LET subject == lower(Get(email_data, "subject", ""))
        body == lower(Get(email_data, "body", ""))
        combined_text == subject \o " " \o body
        sender == lower(Get(email_data, "sender", ""))
    IN  [text   |-> {w \in SeqToSet(urgency_words) \cup SeqToSet(suspicious_keywords) :
                        Contains(combined_text, w)},
         sender |-> {tld \in SeqToSet(suspicious_tlds) : Contains(sender, tld)},
         links  |-> StrCount(body, "http://") + StrCount(body, "https://"),
         http   |-> Contains(combined_text, "http"),
         iocs   |-> iocs]

\* the end-to-end example of the specification
ExampleEmail ==
    [subject |-> "URGENT: Action Required - Verify Your Account Immediately",
     body    |-> "Please verify your account immediately or it will be suspended. Click here to confirm: http://secure-bank.tk/login",
     sender  |-> "security@secure-bank.tk"]

(***************************************************************************)
(* backend/app.py: the rule engine.                                        *)
(***************************************************************************)
IocPoints(ioc) ==
    (IF ioc.ioc_type \in {"md5", "sha1", "sha256"} THEN 10 ELSE 0)
    + (IF ioc.severity = "high" THEN 15
       ELSE IF ioc.severity = "medium" THEN 8 ELSE 0)

ioc_score(iocs) == SumSeq([i \in 1..Len(iocs) |-> IocPoints(iocs[i])])

phishing_score(email_data, iocs) ==
    LET urgency_count == HitCount(urgency_words, email_data.text)
        suspicious_count == HitCount(suspicious_keywords, email_data.text)
        link_count == email_data.links
        ip_in_urls == \E i \in 1..Len(iocs) :
                          iocs[i].ioc_type = "ipv4" /\ email_data.http
    IN  (IF urgency_count >= 3 THEN 30 ELSE IF urgency_count >= 1 THEN 15 ELSE 0)
        + (IF suspicious_count >= 3 THEN 25 ELSE IF suspicious_count >= 1 THEN 10 ELSE 0)
        + (IF SenderSuspicious(email_data.sender) THEN 35 ELSE 0)
        + Min(ioc_score(iocs), 40)
        + (IF link_count > 5 THEN 15 ELSE IF link_count > 2 THEN 5 ELSE 0)
        + (IF ip_in_urls THEN 20 ELSE 0)

\* a verdict that asks for more than 50
detect_phishing_simple_Above(email_data, iocs) == phishing_score(email_data, iocs) > 50

detect_phishing_simple(email_data, iocs) == phishing_score(email_data, iocs) >= 50

\* a confidence whose urgency part is not capped
calculate_confidence_score_NoCap(email_data, iocs) ==
    LET urgency_count == HitCount(urgency_words, email_data.text)
        suspicious_count == HitCount(confidence_keywords, email_data.text)
        high_severity_iocs == Cardinality({i \in 1..Len(iocs) : iocs[i].severity = "high"})
        medium_severity_iocs == Cardinality({i \in 1..Len(iocs) : iocs[i].severity = "medium"})
        score == urgency_count * 8
                 + Min(suspicious_count * 7, 20)
                 + (IF SenderSuspicious(email_data.sender) THEN 20 ELSE 0)
                 + Min(high_severity_iocs * 10, 20)
                 + Min(medium_severity_iocs * 5, 15)
    IN  Min(score, 100)

calculate_confidence_score(email_data, iocs) ==
    LET urgency_count == HitCount(urgency_words, email_data.text)
        suspicious_count == HitCount(confidence_keywords, email_data.text)
        high_severity_iocs == Cardinality({i \in 1..Len(iocs) : iocs[i].severity = "high"})
        medium_severity_iocs == Cardinality({i \in 1..Len(iocs) : iocs[i].severity = "medium"})
        score == Min(urgency_count * 8, 25)
                 + Min(suspicious_count * 7, 20)
                 + (IF SenderSuspicious(email_data.sender) THEN 20 ELSE 0)
                 + Min(high_severity_iocs * 10, 20)
                 + Min(medium_severity_iocs * 5, 15)
    IN  Min(score, 100)

\* a risk level whose thresholds are exclusive
get_risk_level_Exclusive(is_phishing, confidence_score) ==
    IF is_phishing
    THEN IF confidence_score > 80 THEN "Critical"
         ELSE IF confidence_score > 60 THEN "High"
         ELSE "Medium"
    ELSE IF confidence_score > 40 THEN "Low"
         ELSE "Safe"

get_risk_level(is_phishing, confidence_score) ==
    IF is_phishing
    THEN IF confidence_score >= 80 THEN "Critical"
         ELSE IF confidence_score >= 60 THEN "High"
         ELSE "Medium"
    ELSE IF confidence_score >= 40 THEN "Low"
         ELSE "Safe"

(***************************************************************************)
(* The file system.  A file is what was written of an artifact: the       *)
(* artifact (gen: the training run that produced it, 0 for the one        *)
(* present before the first run), how many of its ArtifactLen chunks are  *)
(* on disk, the model_version key of its model_data, and its mtime.       *)
(***************************************************************************)
Digits == <<"0", "1", "2", "3", "4", "5", "6", "7", "8", "9">>

\* %H, %M, %S: two digits
TwoDigits(n) == Digits[(n \div 10) + 1] \o Digits[(n % 10) + 1]

\* %Y%m%d of the day d days after 1970-01-01
DateOf(d) ==
    IF d = -1 THEN "19691231" ELSE IF d = 0 THEN "19700101" ELSE "19700102"

\* datetime.strftime('%Y%m%d_%H%M%S') of the naive datetime t seconds after
\* 1970-01-01 00:00:00: one name per second of the wall clock it was read
\* from
strftime(t) ==
    DateOf(t \div Day) \o "_" \o TwoDigits((t % Day) \div Hour)
        \o TwoDigits((t % Hour) \div 60) \o TwoDigits(t % 60)

\* the readings of the clock, and those of a local wall clock
Times == {h * Hour : h \in 0..MaxTime}
LocalTimes == {t + offset : t \in Times, offset \in Offsets}

\* the time zone of a process (TZ): the offset in force at each instant.
\* A zone keeps its offset, west of UTC, at UTC or east of it, or it is
\* the zone east of UTC in the hours in which its daylight saving time
\* begins or ends
TimeZones ==
    {tz \in [Times -> Offsets] :
        \/ \A t, u \in Times : tz[t] = tz[u]
        \/ \A t \in Times : tz[t] \in {0, Hour}}
UTC == [t \in Times |-> 0]

\* datetime.fromtimestamp(t), and datetime.now() for t the clock: the
\* naive local time of the instant t, by the offset in force at t
fromtimestamp(t, tz) == t + tz[t]

\* backend/app.py line 24 and train_and_save, lines 406-409:
\* <root>/models/simple_ml_model.pkl
model_path == "models/simple_ml_model.pkl"

\* AutoRetrainer.__init__, lines 58-62: Path(__file__).parent.parent /
\* 'models', and auto_retrain.py is at <root>/extras/auto_retrain/
self_model_path == "extras/models/simple_ml_model.pkl"
BackupPath(t) == "extras/models/backups/model_backup_" \o strftime(t) \o ".pkl"

Paths == {model_path, self_model_path} \cup {BackupPath(t) : t \in LocalTimes}

\* the files of the retrainer: its artifact and the backups
RetrainerFiles(files) == [p \in Paths \ {model_path} |-> files[p]]

NoFile == [exists |-> FALSE, gen |-> NoGen, len |-> 0, model_version |-> None, mtime |-> 0]

Artifact(g, ver, t) ==
    [exists |-> TRUE, gen |-> g, len |-> ArtifactLen, model_version |-> ver, mtime |-> t]

\* the bytes of a file, without its metadata
Bytes(f) == [exists |-> f.exists, gen |-> f.gen, len |-> f.len, model_version |-> f.model_version]

IsComplete(f) == f.exists /\ f.len = ArtifactLen

\* os.path.exists / Path.exists
Exists(files, p) == files[p].exists

\* open(path, 'wb'): the file exists and is empty; g and ver say whose
\* bytes are about to be written
Opened(g, ver, t) ==
    [exists |-> TRUE, gen |-> g, len |-> 0, model_version |-> ver, mtime |-> t]

\* the next chunk is written
Written(f, t) == [f EXCEPT !.len = @ + 1, !.mtime = t]

(***************************************************************************)
(* ml/phishing_ml_model.py: SimplePhishingML.                              *)
(***************************************************************************)
\* SimplePhishingML.__init__
NewModel == [rf_model |-> NoGen, model_version |-> "simple-rf-v1.0"]

\* load_model: what it raises, or the fields it sets from model_data
load_model(f) ==
    IF ~f.exists
    THEN [raised |-> "FileNotFoundError", rf_model |-> NoGen, model_version |-> None]
    ELSE IF f.len < ArtifactLen
    THEN [raised |-> "EOFError", rf_model |-> NoGen, model_version |-> None]
    ELSE [raised |-> None,
          rf_model |-> f.gen,
          model_version |-> IF f.model_version = None THEN "unknown" ELSE f.model_version]

\* A float is represented by its value in units of 1 / One (five
\* decimals): 0.7 is 70000 and 66.667 is 6666700.  The number stands for
\* the double nearest to that decimal
One == 100000

\* float(n) of an int.  The rule engine's confidence is an int, which
\* compares, rounds and divides as the float of the same value
float(n) == n * One

\* the integer part of a float that is not negative.  A float is at least
\* a whole number exactly when its integer part is
Whole(x) == x \div One

\* 2^k modulo m
RECURSIVE PowMod(_, _)
PowMod(k, m) == IF k = 0 THEN 1 % m ELSE (2 * PowMod(k - 1, m)) % m

\* the binary exponent of a positive float: 2^e <= x < 2^(e+1)
Exponent(x) ==
    IF x >= One
    THEN CHOOSE e \in 0..6 : One * (2 ^ e) <= x /\ x < One * (2 ^ (e + 1))
    ELSE -(CHOOSE k \in 1..17 : One <= x * (2 ^ k) /\ x * (2 ^ (k - 1)) < One)

\* the double nearest to the decimal x is x itself (0), below it (-1) or
\* above it (1): x is m / One, and the remainder of m * 2^(52 - e) by One
\* tells on which side of x the 53-bit significand falls.  The powers of
\* two in One cancel, One being 2^5 * 5^5
Nearest(x) ==
    LET fives == One \div 32
        r == ((x % fives) * PowMod(47 - Exponent(x), fives)) % fives
    IN  IF r = 0 THEN 0 ELSE IF 2 * r < fives THEN -1 ELSE 1

\* round(x, ndigits) of a positive float below 2^7, 0 <= ndigits <= 5: the
\* value of the double, correctly rounded to that many decimals, and to
\* the even neighbour when the double lies exactly halfway (round(12.125,
\* 2) is 12.12); a decimal tie that is no double goes the way the double
\* nearest to it lies (round(2.675, 2) is 2.67)
round(x, ndigits) ==
    LET q == One \div (10 ^ ndigits)
        down == (x \div q) * q
        up == down + q
    IN  IF 2 * (x - down) < q THEN down
        ELSE IF 2 * (x - down) > q THEN up
        ELSE IF Nearest(x) = -1 THEN down
        ELSE IF Nearest(x) = 1 THEN up
        ELSE IF (down \div q) % 2 = 0 THEN down ELSE up

\* the outcomes of one inference: it raises, or the classifier's
\* phishing-class probability, probabilities[1], a float in [0, 1].  The
\* probabilities drawn are floats whose product by 100 is the double
\* nearest to the decimal product (0.66675 * 100 is the double of 66.675,
\* which lies below it)
Raise == -1
Probabilities == {0, 50000, 56250, 66675, One}
PredictOutcomes == {Raise} \cup Probabilities

\* predict: RandomForestClassifier.predict is the argmax of predict_proba
\* over classes [0, 1], the first of two equal ones
predict(ml, outcome) ==
    IF ml.rf_model = NoGen \/ outcome = Raise
    THEN [raised |-> TRUE, prediction |-> 0, probability |-> 0]
    ELSE [raised |-> FALSE,
          prediction |-> IF outcome > One - outcome THEN 1 ELSE 0,
          probability |-> outcome]

(***************************************************************************)
(* database/models.py: table emails, with the columns another process    *)
(* reads (the retrainer: upload_date, is_phishing) and status.  What the  *)
(* final commit of a request writes besides (confidence_score, the        *)
(* ml_predictions row) is kept with the request's response, in resp.      *)
(***************************************************************************)
Null == "NULL"
SqlBool(b) == IF b THEN "True" ELSE "False"

NewEmail(t) == [upload_date |-> t, status |-> "analyzing", is_phishing |-> Null]

\* MLPrediction(...), lines 298-303, 313-318, 324-329; probability is a
\* float
MLPrediction(is_phishing, probability, model_version) ==
    [predicted_class |-> IF is_phishing THEN "phishing" ELSE "legitimate",
     probability |-> probability,
     model_version |-> model_version]

(***************************************************************************)
(* backend/app.py: the serving process.                                    *)
(***************************************************************************)
\* model_found: what os.path.exists(model_path) answered at line 26
ServerDown ==
    [up |-> FALSE, model_found |-> FALSE, ml_model_available |-> FALSE,
     ml_model |-> NewModel]

\* an upload request inside upload_email, past its first commit: the id
\* of its row, and email, its parsed email_data, one of Samples
Request(email_id, sample) == [email_id |-> email_id, email |-> sample]
NoRequests == {}

NoPrediction == [raised |-> FALSE, prediction |-> 0, probability |-> 0]

\* status 0: no response yet.  confidence_score is the float of the
\* response (line 375); stored_confidence and ml_prediction are what the
\* final commit wrote.  The last four fields observe the detection
\* step: ml_model_available as it read it, whether predict was called, on
\* which model, and what predict returned
NoResponse ==
    [status |-> 0, email_id |-> 0, email |-> 0,
     is_phishing |-> FALSE, confidence_score |-> 0,
     risk_level |-> None, stored_confidence |-> 0,
     ml_prediction |-> MLPrediction(FALSE, 0, None),
     available |-> FALSE, inference |-> None, model |-> NewModel,
     predicted |-> NoPrediction]

\* a module-level load that takes the model for loaded without looking
\* for its file
ModuleLoad_AssumeModel(f) ==
    LET r == load_model(f)
    IN  IF r.raised = None
        THEN [up |-> TRUE, model_found |-> f.exists, ml_model_available |-> TRUE,
              ml_model |-> [rf_model |-> r.rf_model, model_version |-> r.model_version]]
        ELSE [up |-> TRUE, model_found |-> f.exists, ml_model_available |-> ~f.exists,
              ml_model |-> NewModel]

\* a module-level load without the handler of line 55: what load_model
\* raises ends the import, and the process does not start
ModuleLoad_NoExcept(f) ==
    IF f.exists
    THEN LET r == load_model(f)
         IN  IF r.raised = None
             THEN [up |-> TRUE, model_found |-> TRUE, ml_model_available |-> TRUE,
                   ml_model |-> [rf_model |-> r.rf_model, model_version |-> r.model_version]]
             ELSE ServerDown
    ELSE [up |-> TRUE, model_found |-> FALSE, ml_model_available |-> FALSE,
          ml_model |-> NewModel]

\* module level, lines 20-66: load the artifact if its file exists
ModuleLoad(f) ==
    IF f.exists
    THEN LET r == load_model(f)
         IN  IF r.raised = None
             THEN [up |-> TRUE, model_found |-> TRUE, ml_model_available |-> TRUE,
                   ml_model |-> [rf_model |-> r.rf_model, model_version |-> r.model_version]]
             ELSE [up |-> TRUE, model_found |-> TRUE, ml_model_available |-> FALSE,
                   ml_model |-> NewModel]
    ELSE [up |-> TRUE, model_found |-> FALSE, ml_model_available |-> FALSE,
          ml_model |-> NewModel]

ServerStart ==
    /\ ~srv.up
    /\ srv' = ModuleLoad(fs[model_path])
    /\ resp' = NoResponse
    /\ UNCHANGED <<now, fs, emails, req, retr, hist, sched, script, call, ret>>

\* the process is stopped; the requests in flight are lost
ServerStop ==
    /\ srv.up
    /\ srv' = ServerDown
    /\ req' = NoRequests
    /\ resp' = NoResponse
    /\ UNCHANGED <<now, fs, emails, retr, hist, sched, script, call, ret>>

\* upload_email, lines 219-228: no file part, an empty filename or a file
\* type other than .eml and .txt is answered 400
UploadReject ==
    /\ srv.up
    /\ resp' = [NoResponse EXCEPT !.status = 400]
    /\ UNCHANGED <<now, fs, emails, srv, req, retr, hist, sched, script, call, ret>>

\* upload_email, lines 230-255 and 383: file.save, the parser,
\* db.get_session or the first commit raises; the request is answered 500
\* and no row is added
UploadError ==
    /\ srv.up
    /\ resp' = [NoResponse EXCEPT !.status = 500]
    /\ UNCHANGED <<now, fs, emails, srv, req, retr, hist, sched, script, call, ret>>

\* upload_email, lines 230-266: the email row and its analysis log are
\* committed with status 'analyzing'.  app.run serves each request in a
\* thread of its own, and upload_email takes no lock: a request enters
\* while others are in flight
UploadBegin(sample) ==
    /\ srv.up
    /\ Cardinality(req) < MaxInFlight
    /\ Len(emails) < MaxEmails
    /\ emails' = Append(emails, NewEmail(now))
    /\ req' = req \cup {Request(Len(emails) + 1, sample)}
    /\ resp' = NoResponse
    /\ UNCHANGED <<now, fs, srv, retr, hist, sched, script, call, ret>>

\* the detection step taking the artifact the retrainer last saved as soon
\* as it is complete (a hot swap)
ServingModel_Reloaded ==
    IF IsComplete(fs[self_model_path])
    THEN [rf_model |-> fs[self_model_path].gen,
          model_version |-> load_model(fs[self_model_path]).model_version]
    ELSE srv.ml_model

\* the model the detection step runs: the module-level ml_model
ServingModel == srv.ml_model

\* Detection without the try/except of lines 283 and 307: what predict
\* raises leaves the step
Detection_NoFallback(email_data, iocs, outcome) ==
    LET is_phishing_rule == detect_phishing_simple(email_data, iocs)
        confidence_rule == calculate_confidence_score(email_data, iocs)
        rule == [raised |-> FALSE,
                 is_phishing |-> is_phishing_rule,
                 confidence_score |-> float(confidence_rule),
                 ml_prediction |-> MLPrediction(is_phishing_rule,
                                                float(confidence_rule) \div 100,
                                                "rule-based-v1.0")]
    IN  IF srv.ml_model_available
        THEN LET p == predict(ServingModel, outcome)
             IN  [raised |-> p.raised,
                  is_phishing |-> (p.prediction = 1),
                  confidence_score |-> p.probability * 100,
                  ml_prediction |-> MLPrediction(p.prediction = 1, p.probability,
                                                 ServingModel.model_version),
                  inference |-> IF p.raised THEN "raised" ELSE "succeeded",
                  model |-> ServingModel,
                  predicted |-> p]
        ELSE rule @@ [inference |-> "not attempted", model |-> NewModel,
                      predicted |-> NoPrediction]

\* Detection taking the rule engine's confidence for the model's verdict
Detection_RuleConfidence(email_data, iocs, outcome) ==
    LET is_phishing_rule == detect_phishing_simple(email_data, iocs)
        confidence_rule == calculate_confidence_score(email_data, iocs)
        rule == [raised |-> FALSE,
                 is_phishing |-> is_phishing_rule,
                 confidence_score |-> float(confidence_rule),
                 ml_prediction |-> MLPrediction(is_phishing_rule,
                                                float(confidence_rule) \div 100,
                                                "rule-based-v1.0")]
    IN  IF srv.ml_model_available
        THEN LET p == predict(ServingModel, outcome)
             IN  IF ~p.raised
                 THEN [raised |-> FALSE,
                       is_phishing |-> (p.prediction = 1),
                       confidence_score |-> float(confidence_rule),
                       ml_prediction |-> MLPrediction(p.prediction = 1, p.probability,
                                                      ServingModel.model_version),
                       inference |-> "succeeded",
                       model |-> ServingModel,
                       predicted |-> p]
                 ELSE rule @@ [inference |-> "raised", model |-> ServingModel,
                               predicted |-> p]
        ELSE rule @@ [inference |-> "not attempted", model |-> NewModel,
                      predicted |-> NoPrediction]

\* lines 281-329: the detection step.  raised: an exception leaves the
\* step (for the handler of line 383)
Detection(email_data, iocs, outcome) ==
    LET is_phishing_rule == detect_phishing_simple(email_data, iocs)
        confidence_rule == calculate_confidence_score(email_data, iocs)
        rule == [raised |-> FALSE,
                 is_phishing |-> is_phishing_rule,
                 confidence_score |-> float(confidence_rule),
                 ml_prediction |-> MLPrediction(is_phishing_rule,
                                                float(confidence_rule) \div 100,
                                                "rule-based-v1.0")]
    IN  IF srv.ml_model_available
        THEN LET p == predict(ServingModel, outcome)
             IN  IF ~p.raised
                 THEN [raised |-> FALSE,
                       is_phishing |-> (p.prediction = 1),
                       confidence_score |-> p.probability * 100,
                       ml_prediction |-> MLPrediction(p.prediction = 1, p.probability,
                                                      ServingModel.model_version),
                       inference |-> "succeeded",
                       model |-> ServingModel,
                       predicted |-> p]
                 ELSE rule @@ [inference |-> "raised", model |-> ServingModel,
                               predicted |-> p]
        ELSE rule @@ [inference |-> "not attempted", model |-> NewModel,
                      predicted |-> NoPrediction]

\* upload_email, lines 268-381: indicators, detection, the final commit
\* and the response; line 383 when the detection step raises
UploadFinish(r, outcome) ==
    /\ srv.up
    /\ r \in req
    /\ LET email_data == Samples[r.email]
           extracted_iocs == email_data.iocs
           d == Detection(email_data, extracted_iocs, outcome)
       IN  IF d.raised
           THEN /\ emails' = emails
                /\ resp' = [NoResponse EXCEPT !.status = 500,
                                              !.email_id = r.email_id,
                                              !.inference = d.inference]
           ELSE /\ emails' = [emails EXCEPT ![r.email_id] =
                                 [@ EXCEPT !.is_phishing = SqlBool(d.is_phishing),
                                           !.status = "completed"]]
                /\ resp' = [status |-> 201,
                            email_id |-> r.email_id,
                            email |-> r.email,
                            is_phishing |-> d.is_phishing,
                            confidence_score |-> round(d.confidence_score, 2),
                            risk_level |-> get_risk_level(d.is_phishing,
                                                          Whole(d.confidence_score)),
                            stored_confidence |-> d.confidence_score,
                            ml_prediction |-> d.ml_prediction,
                            available |-> srv.ml_model_available,
                            inference |-> d.inference,
                            model |-> d.model,
                            predicted |-> d.predicted]
    /\ req' = req \ {r}
    /\ UNCHANGED <<now, fs, srv, retr, hist, sched, script, call, ret>>

\* line 383: a failure after the first commit (the database refuses a
\* later commit) answers 500; the row is left as committed
UploadFail(r) ==
    /\ srv.up
    /\ r \in req
    /\ resp' = [NoResponse EXCEPT !.status = 500, !.email_id = r.email_id]
    /\ req' = req \ {r}
    /\ UNCHANGED <<now, fs, emails, srv, retr, hist, sched, script, call, ret>>

(***************************************************************************)
(* auto_retrain.py: AutoRetrainer.  Lines 73 and 125 open the session as  *)
(* self.db.Session(), an attribute that the Database of                    *)
(* database/models.py does not have (it has SessionLocal and get_session): *)
(* as the source stands the call raises AttributeError (CheckRaise,        *)
(* PrepareRaise).  The stages behind the call are modelled for a Database  *)
(* whose session factory answers to that name.  The process is started     *)
(* with the repository root on the module search path: line 32 adds        *)
(* <root>/extras, where the imports of lines 34-37 find nothing.           *)
(***************************************************************************)
Decision(b, why) == [should_retrain |-> b, reason |-> why]
NoDecision == Decision(FALSE, None)

\* lines 77-78: datetime.fromtimestamp(st_mtime), the local time of the
\* mtime of the retrainer's artifact
last_train_time(files, tz) == fromtimestamp(files[self_model_path].mtime, tz)

\* lines 83-85: the rows uploaded since; Email.upload_date is
\* datetime.utcnow()
new_emails(rows, since) ==
    Cardinality({i \in 1..Len(rows) : rows[i].upload_date > since})

\* line 93
total_emails(rows) == Len(rows)

\* check_if_retraining_needed, lines 77-98, on what it has read: whether
\* the artifact exists, the count of lines 83-85 and the count of line 93
check_if_retraining_needed(exists, new, total, minimum) ==
    IF ~exists
    THEN Decision(TRUE, "No existing model found")
    ELSE IF new >= minimum
    THEN Decision(TRUE, "new emails since last training")
    ELSE IF total >= minimum
    THEN Decision(TRUE, "Sufficient data")
    ELSE Decision(FALSE, "Not enough new data")

\* labels.append(1 if email.is_phishing else 0)
Label(row) == IF row.is_phishing = "True" THEN 1 ELSE 0

\* prepare_training_data: None, or (emails_data, labels); emails_data is
\* represented by its length
prepare_training_data(rows) ==
    IF Len(rows) < 4
    THEN [data |-> None, emails_data |-> <<>>, labels |-> <<>>]
    ELSE LET labels == [i \in 1..Len(rows) |-> Label(rows[i])]
             phishing_count == SumSeq(labels)
             legitimate_count == Len(labels) - phishing_count
         IN  IF phishing_count < 2 \/ legitimate_count < 2
             THEN [data |-> None, emails_data |-> <<>>, labels |-> <<>>]
             ELSE [data |-> "data",
                   emails_data |-> [i \in 1..Len(rows) |-> "email_data"],
                   labels |-> labels]

\* lines 109-110: the backup is named by datetime.now(), the local wall
\* clock t
backup_path(t) == BackupPath(t)

\* backup_current_model that makes no backup
backup_current_model_NoCopy(files, t) == None

\* backup_current_model, lines 105-110: nothing to back up, or the path
\* shutil.copy2 copies the artifact to
backup_current_model(files, t) ==
    IF ~Exists(files, self_model_path) THEN None ELSE backup_path(t)

\* what a failed or successful training leaves in self.rf_model
Unfitted == -2
Fits == {"fitted", "vectorizer raised", "classifier raised"}

\* train_on_custom_data, lines 266-277: the ValueError of its checks, None
\* when they pass
ValueError(emails_data, labels) ==
    LET phishing_count == SumSeq(labels)
        legitimate_count == Len(labels) - phishing_count
    IN  IF Len(emails_data) # Len(labels)
        THEN "Number of emails and labels must match"
        ELSE IF Len(emails_data) < 4
        THEN "Need at least 4 emails for training"
        ELSE IF phishing_count < 2 \/ legitimate_count < 2
        THEN "Need at least 2 examples of each class"
        ELSE None

\* train_on_custom_data: raises ValueError on its own checks, or whatever
\* the vectorizer (line 299) or the classifier (line 311) raises; else
\* True.  rf_model: None, the classifier of line 306 before fit, or the
\* fitted classifier
train_on_custom_data(emails_data, labels, fit) ==
    IF ValueError(emails_data, labels) # None \/ fit = "vectorizer raised"
    THEN [returned |-> "raised", rf_model |-> "None"]
    ELSE IF fit = "classifier raised"
    THEN [returned |-> "raised", rf_model |-> "unfitted"]
    ELSE [returned |-> "True", rf_model |-> "fitted"]

\* run: the number of runs started; stages, trained and result observe
\* the run; minimum and tz are the process's (--min-emails, its time
\* zone); the other fields are the AutoRetrainer's
\* and the run's locals
RetrainerIdle ==
    [pc |-> "idle", force |-> FALSE, run |-> 0, minimum |-> 0, tz |-> UTC,
     stages |-> <<>>, last_train_time |-> 0, new_emails |-> 0,
     decision |-> NoDecision, training_data |-> None, emails_data |-> <<>>,
     labels |-> <<>>, backup_path |-> None, ml_model |-> NewModel,
     trained |-> None, result |-> None]

Running == retr.pc \notin {"idle", "done"}

\* retrain_model returns: the locals of the run are gone; self.ml_model
\* stays what line 255 and the training made it
Return(r, value) ==
    [r EXCEPT !.pc = "done", !.result = value, !.decision = NoDecision,
              !.minimum = 0, !.tz = UTC,
              !.last_train_time = 0, !.new_emails = 0,
              !.training_data = None, !.emails_data = <<>>, !.labels = <<>>,
              !.backup_path = None]

\* lines 222-229: the run follows the decision of CHECK
AfterCheck(r, d) ==
    IF d.should_retrain
    THEN [r EXCEPT !.pc = "prepare", !.decision = d]
    ELSE Return([r EXCEPT !.decision = d], "False")

\* the loop of schedule_retraining is not running
SchedOff == [pc |-> "off", minimum |-> 0, tz |-> UTC]

\* An exception that no handler of retrain_model catches leaves the run
\* where it is raised and ends the process: main has no handler, and the
\* loop of lines 320-324, which the exception reaches through
\* schedule.run_pending(), has one for KeyboardInterrupt only
Raised(r) == Return(r, "raised")

Crashed == IF sched.pc = "sleeping" THEN [sched EXCEPT !.pc = "crashed"] ELSE sched

\* main and retrain_model, lines 216-229: the process starts with
\* --min-emails minimum [--force] in the time zone tz, and a run starts;
\* unless forced, CHECK opens its session and reads the artifact's mtime
\* (lines 73-80).  In the scheduled process the AutoRetrainer is the one
\* of the earlier runs
RetrainModel(force, minimum, tz) ==
    /\ ~Running
    /\ retr.run < MaxRuns
    /\ LET r0 == [RetrainerIdle EXCEPT
                     !.run = retr.run + 1, !.force = force,
                     !.minimum = IF force THEN 0 ELSE minimum, !.tz = tz,
                     !.ml_model = IF sched.pc = "sleeping"
                                  THEN retr.ml_model ELSE NewModel]
           r1 == [r0 EXCEPT !.stages = <<"CHECK">>]
       IN  retr' = IF force
                   THEN [r0 EXCEPT !.pc = "prepare"]
                   ELSE IF ~Exists(fs, self_model_path)
                   THEN AfterCheck(r1, check_if_retraining_needed(FALSE, 0, 0, minimum))
                   ELSE [r1 EXCEPT !.pc = "check_new",
                                   !.last_train_time = last_train_time(fs, tz)]
    /\ hist' = [fs_at_start |-> RetrainerFiles(fs), live_at_backup |-> NoFile]
    /\ resp' = NoResponse
    /\ UNCHANGED <<now, fs, emails, srv, req, sched, script, call, ret>>

\* check_if_retraining_needed, line 73: self.db.Session() raises.  The
\* Database of database/models.py (lines 73-88) has the attributes engine,
\* SessionLocal, create_tables and get_session: the lookup of Session
\* raises AttributeError, before the try of line 75 and outside the try of
\* retrain_model (lines 253-284)
CheckRaise ==
    /\ ~Running
    /\ retr.run < MaxRuns
    /\ retr' = Raised([RetrainerIdle EXCEPT
                          !.run = retr.run + 1, !.stages = <<"CHECK">>,
                          !.ml_model = IF sched.pc = "sleeping"
                                       THEN retr.ml_model ELSE NewModel])
    /\ sched' = Crashed
    /\ hist' = [fs_at_start |-> RetrainerFiles(fs), live_at_backup |-> NoFile]
    /\ resp' = NoResponse
    /\ UNCHANGED <<now, fs, emails, srv, req, script, call, ret>>

\* lines 83-88: the count of the rows uploaded since the last training
CheckNew ==
    /\ retr.pc = "check_new"
    /\ LET n == new_emails(emails, retr.last_train_time)
           d == check_if_retraining_needed(TRUE, n, 0, retr.minimum)
       IN  retr' = IF n >= retr.minimum
                   THEN AfterCheck(retr, d)
                   ELSE [retr EXCEPT !.pc = "check_total", !.new_emails = n]
    /\ resp' = NoResponse
    /\ UNCHANGED <<now, fs, emails, srv, req, hist, sched, script, call, ret>>

\* lines 93-98: the count of all rows
CheckTotal ==
    /\ retr.pc = "check_total"
    /\ retr' = AfterCheck(retr, check_if_retraining_needed(
                                    TRUE, retr.new_emails, total_emails(emails),
                                    retr.minimum))
    /\ resp' = NoResponse
    /\ UNCHANGED <<now, fs, emails, srv, req, hist, sched, script, call, ret>>

\* lines 235-239: no training data ends the run
AfterPrepare(r, td) ==
    IF td.data = None
    THEN Return(r, "False")
    ELSE [r EXCEPT !.pc = "backup",
                   !.training_data = td.data,
                   !.emails_data = td.emails_data,
                   !.labels = td.labels]

\* lines 233-239: PREPARE_DATA
PrepareData ==
    /\ retr.pc = "prepare"
    /\ retr' = AfterPrepare([retr EXCEPT !.stages = Append(@, "PREPARE_DATA")],
                            prepare_training_data(emails))
    /\ resp' = NoResponse
    /\ UNCHANGED <<now, fs, emails, srv, req, hist, sched, script, call, ret>>

\* prepare_training_data, line 125 (self.db.Session()) or a query of
\* lines 129 and 142 raises: line 234 is outside the try of retrain_model
PrepareRaise ==
    /\ retr.pc = "prepare"
    /\ retr' = Raised([retr EXCEPT !.stages = Append(@, "PREPARE_DATA")])
    /\ sched' = Crashed
    /\ resp' = NoResponse
    /\ UNCHANGED <<now, fs, emails, srv, req, hist, script, call, ret>>

\* lines 243-245 and 105-113: BACKUP.  Without an artifact there is
\* nothing to do; else the backup is named and shutil.copy2 opens it for
\* writing, which creates or truncates it
Backup ==
    /\ retr.pc = "backup"
    /\ LET p == backup_current_model(fs, fromtimestamp(now, retr.tz))
           r == [retr EXCEPT !.stages = Append(@, "BACKUP"), !.backup_path = p]
       IN  IF p = None
           THEN /\ fs' = fs
                /\ retr' = [r EXCEPT !.pc = "train"]
           ELSE /\ fs' = [fs EXCEPT ![p] = Opened(fs[self_model_path].gen,
                                                  fs[self_model_path].model_version,
                                                  now)]
                /\ retr' = [r EXCEPT !.pc = "copying"]
    /\ hist' = [hist EXCEPT !.live_at_backup = fs[self_model_path]]
    /\ resp' = NoResponse
    /\ UNCHANGED <<now, emails, srv, req, sched, script, call, ret>>

\* shutil.copy2, copyfile: the next chunk of the artifact is written to
\* the backup
BackupCopy ==
    /\ retr.pc = "copying"
    /\ fs[retr.backup_path].len < fs[self_model_path].len
    /\ fs' = [fs EXCEPT ![retr.backup_path] = Written(@, now)]
    /\ resp' = NoResponse
    /\ UNCHANGED <<now, emails, srv, req, retr, hist, sched, script, call, ret>>

\* shutil.copy2, copystat: all is copied, and the backup gets the mtime of
\* the artifact; backup_current_model returns
BackupStat ==
    /\ retr.pc = "copying"
    /\ fs[retr.backup_path].len = fs[self_model_path].len
    /\ fs' = [fs EXCEPT ![retr.backup_path].mtime = fs[self_model_path].mtime]
    /\ retr' = [retr EXCEPT !.pc = "train"]
    /\ resp' = NoResponse
    /\ UNCHANGED <<now, emails, srv, req, hist, sched, script, call, ret>>

\* backup_current_model, line 113: shutil.copy2 raises, before it has
\* created the backup or while it writes it (the disk is full, the file
\* size limit is reached); line 245 is outside the try of retrain_model
BackupRaise ==
    /\ \/ retr.pc = "backup" /\ Exists(fs, self_model_path)
       \/ retr.pc = "copying"
    /\ retr' = Raised([retr EXCEPT !.stages = IF retr.pc = "backup"
                                              THEN Append(@, "BACKUP") ELSE @])
    /\ sched' = Crashed
    /\ resp' = NoResponse
    /\ UNCHANGED <<now, fs, emails, srv, req, hist, script, call, ret>>

\* a run that saves whatever training left behind
AfterTrain_SaveAnyway(r, outcome) ==
    [r EXCEPT !.pc = "save", !.trained = outcome]

\* what retrain_model does with the outcome of training, lines 253-262
\* and 280-284: go on to SAVE, or return False
AfterTrain(r, outcome) ==
    IF outcome = "True"
    THEN [r EXCEPT !.pc = "save", !.trained = outcome]
    ELSE Return([r EXCEPT !.trained = outcome], "False")

\* lines 253-262: TRAIN, on a new SimplePhishingML (line 255)
Train(fit) ==
    /\ retr.pc = "train"
    /\ LET t == train_on_custom_data(retr.emails_data, retr.labels, fit)
           rf_model == IF t.rf_model = "fitted" THEN retr.run
                       ELSE IF t.rf_model = "unfitted" THEN Unfitted ELSE NoGen
       IN  retr' = AfterTrain([retr EXCEPT !.stages = Append(@, "TRAIN"),
                                           !.ml_model = [NewModel EXCEPT
                                                            !.rf_model = rf_model]],
                              t.returned)
    /\ resp' = NoResponse
    /\ UNCHANGED <<now, fs, emails, srv, req, hist, sched, script, call, ret>>

\* save_model, line 366: joblib.dump opens the retrainer's path for
\* writing, which truncates it
SaveOpen ==
    /\ retr.pc = "save"
    /\ fs' = [fs EXCEPT ![self_model_path] =
                 Opened(retr.ml_model.rf_model, retr.ml_model.model_version, now)]
    /\ retr' = [retr EXCEPT !.pc = "saving", !.stages = Append(@, "SAVE")]
    /\ resp' = NoResponse
    /\ UNCHANGED <<now, emails, srv, req, hist, sched, script, call, ret>>

\* joblib.dump writes the next chunk; after the last one the file is
\* complete and the run has still to return
SaveWrite ==
    /\ retr.pc = "saving"
    /\ fs[self_model_path].len < ArtifactLen
    /\ fs' = [fs EXCEPT ![self_model_path] = Written(@, now)]
    /\ retr' = IF fs[self_model_path].len + 1 = ArtifactLen
               THEN [retr EXCEPT !.pc = "saved"]
               ELSE retr
    /\ resp' = NoResponse
    /\ UNCHANGED <<now, emails, srv, req, hist, sched, script, call, ret>>

\* save_model returns (line 367) and retrain_model reports and returns
\* True (lines 268-278)
SaveReturn ==
    /\ retr.pc = "saved"
    /\ retr' = Return(retr, "True")
    /\ resp' = NoResponse
    /\ UNCHANGED <<now, fs, emails, srv, req, hist, sched, script, call, ret>>

\* save_model raises, before the file is opened (os.makedirs of line 358,
\* or the open itself) or while joblib.dump writes (the disk is full):
\* lines 280-284
SaveRaise ==
    /\ retr.pc \in {"save", "saving"}
    /\ retr' = Return([retr EXCEPT !.stages = IF retr.pc = "save"
                                              THEN Append(@, "SAVE") ELSE @],
                      "False")
    /\ resp' = NoResponse
    /\ UNCHANGED <<now, fs, emails, srv, req, hist, sched, script, call, ret>>

\* the retrainer process is killed or interrupted
Kill ==
    /\ Running
    /\ retr' = [RetrainerIdle EXCEPT !.run = retr.run, !.result = "killed"]
    /\ resp' = NoResponse
    /\ UNCHANGED <<now, fs, emails, srv, req, hist, sched, script, call, ret>>

Tick ==
    /\ now + Hour \in Times
    /\ now' = now + Hour
    /\ resp' = NoResponse
    /\ UNCHANGED <<fs, emails, srv, req, retr, hist, sched, script, call, ret>>

(***************************************************************************)
(* ml/phishing_ml_model.py run as a script: train_and_save, lines          *)
(* 382-421.  It trains a SimplePhishingML on the files of data/ and saves  *)
(* it to model_path, the file the serving process loads.                   *)
(***************************************************************************)
\* run: the runs of train_and_save started
ScriptOff == [pc |-> "off", run |-> 0]

\* the artifact of the n-th run of train_and_save
ScriptGen(n) == MaxRuns + n

\* lines 392-410: the training has returned and save_model opens
\* model_path for writing (joblib.dump, line 366), which truncates it
TrainAndSave ==
    /\ script.pc = "off"
    /\ script.run < MaxSaves
    /\ fs' = [fs EXCEPT ![model_path] =
                 Opened(ScriptGen(script.run + 1), NewModel.model_version, now)]
    /\ script' = [pc |-> "saving", run |-> script.run + 1]
    /\ resp' = NoResponse
    /\ UNCHANGED <<now, emails, srv, req, retr, hist, sched, call, ret>>

\* joblib.dump writes the next chunk; after the last one the script has
\* only to print (lines 367 and 412-421) and ends: killed there or not, it
\* leaves the same file and no result
TrainAndSaveWrite ==
    /\ script.pc = "saving"
    /\ fs[model_path].len < ArtifactLen
    /\ fs' = [fs EXCEPT ![model_path] = Written(@, now)]
    /\ script' = IF fs[model_path].len + 1 = ArtifactLen
                 THEN [script EXCEPT !.pc = "off"]
                 ELSE script
    /\ resp' = NoResponse
    /\ UNCHANGED <<now, emails, srv, req, retr, hist, sched, call, ret>>

\* the script is killed, or joblib.dump raises, while the file is written:
\* train_and_save has no handler
TrainAndSaveKill ==
    /\ script.pc = "saving"
    /\ script' = [script EXCEPT !.pc = "off"]
    /\ resp' = NoResponse
    /\ UNCHANGED <<now, fs, emails, srv, req, retr, hist, sched, call, ret>>

\* no function is called on its own
NoCall == [fn |-> None]

(***************************************************************************)
(* auto_retrain.py --schedule: schedule_retraining.  The process           *)
(* registers retrain_model as the job and loops over                       *)
(* schedule.run_pending(); time.sleep(60).  The only way out of the loop   *)
(* is the KeyboardInterrupt that Python raises in the main thread when     *)
(* SIGINT arrives, wherever the main thread is.                            *)
(***************************************************************************)
\* histories a scheduled retrainer may find in the database: rows of
\* analysed e-mails
Row(is_phishing) ==
    [upload_date |-> 0, status |-> "completed", is_phishing |-> SqlBool(is_phishing)]

Histories ==
    {<<>>,
     <<Row(TRUE), Row(TRUE), Row(TRUE), Row(FALSE)>>,
     <<Row(TRUE), Row(TRUE), Row(FALSE), Row(FALSE)>>}

\* lines 320-324, the job being due: run_pending calls retrain_model()
\* (force is False), which returns before the loop sleeps again
RunPending ==
    /\ sched.pc = "sleeping"
    /\ RetrainModel(FALSE, sched.minimum, sched.tz)

\* the job being due, and line 73 raises
RunPendingRaise ==
    /\ sched.pc = "sleeping"
    /\ CheckRaise

\* SIGINT: KeyboardInterrupt is raised where the main thread is.  Inside
\* retrain_model no handler catches it (line 280 catches Exception, which
\* KeyboardInterrupt is not): the run is abandoned at that point and the
\* exception reaches line 326, which ends the loop
KeyboardInterrupt ==
    /\ sched.pc = "sleeping"
    /\ sched' = [sched EXCEPT !.pc = "stopped"]
    /\ retr' = IF Running
               THEN [RetrainerIdle EXCEPT !.run = retr.run, !.result = "interrupted"]
               ELSE retr
    /\ resp' = NoResponse
    /\ UNCHANGED <<now, fs, emails, srv, req, hist, script, call, ret>>

InitSched ==
    /\ now = 0
    /\ \E f \in {NoFile, Artifact(0, "simple-rf-v1.0", 0)} :
           fs = [p \in Paths |-> IF p = self_model_path THEN f ELSE NoFile]
    /\ emails \in Histories
    /\ srv = ServerDown
    /\ req = NoRequests
    /\ resp = NoResponse
    /\ retr = RetrainerIdle
    /\ hist = [fs_at_start |-> RetrainerFiles(fs), live_at_backup |-> NoFile]
    /\ \E minimum \in 1..MaxMinNew, tz \in TimeZones :
           sched = [pc |-> "sleeping", minimum |-> minimum, tz |-> tz]
    /\ script = ScriptOff
    /\ call = NoCall
    /\ ret = NoCall

NextSched ==
    \/ Tick
    \/ RunPending
    \/ RunPendingRaise
    \/ CheckNew
    \/ CheckTotal
    \/ PrepareData
    \/ PrepareRaise
    \/ Backup
    \/ BackupCopy
    \/ BackupStat
    \/ BackupRaise
    \/ \E fit \in Fits : Train(fit)
    \/ SaveOpen
    \/ SaveWrite
    \/ SaveReturn
    \/ SaveRaise
    \/ KeyboardInterrupt

SpecSched == InitSched /\ [][NextSched]_vars

(***************************************************************************)
(* The rule engine called on its own: detect_phishing_simple,              *)
(* calculate_confidence_score and get_risk_level on e-mails and indicator  *)
(* lists drawn from bounded sets.                                          *)
(***************************************************************************)
Subjects == {"", "Your invoice", ExampleEmail.subject, "ÉXPIRES: ACT\tNOW"}

Bodies ==
    {"",
     "Please verify your password immediately. Click here: http://a.tk",
     "You are a WINNER of the lottery prize! Warning: offer expires soon",
     "See http://a.com https://b.com and http://192.168.1.1/x",
     "http://a.com http://b.com http://c.com https://d.com https://e.com http://f.com",
     ExampleEmail.body}

Senders == {"alice@example.com", "Support <help@prizes.XYZ>", ExampleEmail.sender}

\* d without the keys outside keep
Restrict(d, keep) == [k \in (DOMAIN d) \cap keep |-> d[k]]

\* parsed e-mails; the example also with keys missing
RuleEmails ==
    {[subject |-> s, body |-> b, sender |-> f] :
        s \in Subjects, b \in Bodies, f \in Senders}
    \cup {Restrict(ExampleEmail, keep) : keep \in SUBSET {"subject", "body", "sender"}}

IocKinds ==
    {Ioc("md5", "high"), Ioc("ipv4", "medium"), Ioc("url", "high"),
     Ioc("url", "medium"), Ioc("email", "low")}

IocLists == UNION {[1..n -> IocKinds] : n \in 0..MaxIocs}

\* confidence scores handed to get_risk_level
Confidences == 0..MaxConfidence

\* the handler's use of the rule engine, lines 321-322 and 370
CallRules ==
    /\ call.fn = "rules"
    /\ ret = NoCall
    /\ LET email_data == ReadEmail(call.email_data, call.iocs)
           is_phishing == detect_phishing_simple(email_data, call.iocs)
           confidence_score == calculate_confidence_score(email_data, call.iocs)
       IN  ret' = [fn |-> "rules",
                   is_phishing |-> is_phishing,
                   confidence_score |-> confidence_score,
                   risk_level |-> get_risk_level(is_phishing, confidence_score)]
    /\ resp' = NoResponse
    /\ UNCHANGED <<now, fs, emails, srv, req, retr, hist, sched, script, call>>

CallRiskLevel ==
    /\ call.fn = "get_risk_level"
    /\ ret = NoCall
    /\ ret' = [fn |-> "get_risk_level",
               risk_level |-> get_risk_level(call.is_phishing, call.confidence_score)]
    /\ resp' = NoResponse
    /\ UNCHANGED <<now, fs, emails, srv, req, retr, hist, sched, script, call>>

\* every variable of the system at rest
SystemAtRest ==
    /\ now = 0
    /\ fs = [p \in Paths |-> NoFile]
    /\ emails = <<>>
    /\ srv = ServerDown
    /\ req = NoRequests
    /\ resp = NoResponse
    /\ retr = RetrainerIdle
    /\ hist = [fs_at_start |-> RetrainerFiles(fs), live_at_backup |-> NoFile]
    /\ sched = SchedOff
    /\ script = ScriptOff

InitRules ==
    /\ SystemAtRest
    /\ call \in {[fn |-> "rules", email_data |-> e, iocs |-> l] :
                    e \in RuleEmails, l \in IocLists}
               \cup {[fn |-> "get_risk_level", is_phishing |-> b, confidence_score |-> c] :
                        b \in BOOLEAN, c \in Confidences}
    /\ ret = NoCall

NextRules ==
    \/ CallRules
    \/ CallRiskLevel

SpecRules == InitRules /\ [][NextRules]_vars

(***************************************************************************)
(* backend/utils/ioc_extractor.py: IOCExtractor.  The seven patterns are   *)
(* matched on the characters of the text, as re.findall matches them:      *)
(* from the left, without overlap, the greedy match at each start.  The    *)
(* classes written in the patterns are ASCII, also under re.IGNORECASE on  *)
(* the alphabet of the texts; \b and \w are Unicode-aware.                 *)
(***************************************************************************)
DigitChars == CharsOf("0123456789")
Letters == CharsOf(UpperCase) \cup CharsOf(LowerCase)
AlNum == Letters \cup DigitChars

\* \w: str.isalnum or '_'
WordChars ==
    AlNum \cup {"_"} \cup CharsOf(UpperLatin) \cup CharsOf(LowerLatin)
          \cup CharsOf(OtherAlNum)

\* [a-fA-F0-9]
HexDigits == DigitChars \cup CharsOf("abcdefABCDEF")

\* [a-zA-Z] | [0-9] | [$-_@.&+] | [!*\\(\\),] : the range $-_ runs from
\* code 36 to code 95
UrlChars == AlNum \cup CharsOf("$%&'()*+,-./:;<=>?@[\\]^_") \cup {"!"}

\* [A-Za-z0-9._%+-]
LocalChars == AlNum \cup CharsOf("._%+-")

\* [A-Za-z0-9.-]
HostChars == AlNum \cup CharsOf(".-")

\* [A-Z|a-z]
EmailTldChars == Letters \cup {"|"}

\* [a-zA-Z0-9\-]
LabelChars == AlNum \cup {"-"}

\* a label: one character, or two with at most 61 between them
MaxLabel == 63

Least(S) == CHOOSE j \in S : \A k \in S : j <= k
Greatest(S) == CHOOSE j \in S : \A k \in S : j >= k

\* t[i-1:j], "" when empty
Sub(t, i, j) == IF i >= 1 /\ i <= j /\ j <= Len(t) THEN SubSeq(t, i, j) ELSE ""

\* \b before position i
Boundary(t, i) == (Ch(t, i - 1) \in WordChars) # (Ch(t, i) \in WordChars)

\* the last position of the longest run of characters of class from
\* position i on; i - 1 when there is none
RunEnd(t, i, class) ==
    IF i > Len(t) + 1 THEN i - 1
    ELSE (CHOOSE j \in i..(Len(t) + 1) :
              /\ Ch(t, j) \notin class
              /\ \A k \in i..(j - 1) : Ch(t, k) \in class) - 1

\* 25[0-5] | 2[0-4][0-9] | [01]?[0-9][0-9]? matches the whole of s
IsOctet(s) ==
    /\ Len(s) \in 1..3
    /\ \A j \in 1..Len(s) : Ch(s, j) \in DigitChars
    /\ Len(s) = 3 =>
          \/ Ch(s, 1) \in {"0", "1"}
          \/ Ch(s, 1) = "2" /\ Ch(s, 2) \in CharsOf("01234")
          \/ Ch(s, 1) = "2" /\ Ch(s, 2) = "5" /\ Ch(s, 3) \in CharsOf("012345")

\* the end of the match of the ipv4 pattern that starts at i, 0 without
\* one: an octet before a dot, or before the closing \b, is the whole run
\* of digits there
MatchIpv4(t, i) ==
    LET e1 == RunEnd(t, i, DigitChars)
        e2 == RunEnd(t, e1 + 2, DigitChars)
        e3 == RunEnd(t, e2 + 2, DigitChars)
        e4 == RunEnd(t, e3 + 2, DigitChars)
    IN  IF /\ Boundary(t, i)
           /\ IsOctet(Sub(t, i, e1)) /\ Ch(t, e1 + 1) = "."
           /\ IsOctet(Sub(t, e1 + 2, e2)) /\ Ch(t, e2 + 1) = "."
           /\ IsOctet(Sub(t, e2 + 2, e3)) /\ Ch(t, e3 + 1) = "."
           /\ IsOctet(Sub(t, e3 + 2, e4))
           /\ Boundary(t, e4 + 1)
        THEN e4 ELSE 0

\* http[s]?:// and the longest run of URL characters, at least one
MatchUrl(t, i) ==
    LET a == IF lower(Ch(t, i + 4)) = "s" THEN i + 5 ELSE i + 4
        e == RunEnd(t, a + 3, UrlChars)
    IN  IF /\ lower(Sub(t, i, i + 3)) = "http"
           /\ Sub(t, a, a + 2) = "://"
           /\ e >= a + 3
        THEN e ELSE 0

\* local part, '@', then of the host characters the longest prefix that a
\* dot and two or more of [A-Z|a-z] ending at a \b follow
MatchEmail(t, i) ==
    LET l == RunEnd(t, i, LocalChars)
        a == l + 2
        b == RunEnd(t, a, HostChars)
        Ends(p) == {e \in (p + 3)..RunEnd(t, p + 2, EmailTldChars) : Boundary(t, e + 1)}
        dots == {p \in a..(b - 1) : Ch(t, p + 1) = "." /\ Ends(p) # {}}
    IN  IF /\ Boundary(t, i)
           /\ l >= i
           /\ Ch(t, l + 1) = "@"
           /\ dots # {}
        THEN Greatest(Ends(Greatest(dots))) ELSE 0

\* a label and its dot start at i
IsLabel(t, i) ==
    LET r == RunEnd(t, i, LabelChars)
    IN  /\ r >= i
        /\ r - i + 1 <= MaxLabel
        /\ Ch(t, i) \in AlNum
        /\ Ch(t, r) \in AlNum
        /\ Ch(t, r + 1) = "."

\* the positions that follow one or more labels from i on
RECURSIVE AfterLabels(_, _)
AfterLabels(t, i) ==
    IF IsLabel(t, i)
    THEN LET q == RunEnd(t, i, LabelChars) + 2
         IN  {q} \cup AfterLabels(t, q)
    ELSE {}

\* as many labels as leave two or more letters ending at a \b
MatchDomain(t, i) ==
    LET tlds == {q \in AfterLabels(t, i) :
                    LET e == RunEnd(t, q, Letters)
                    IN  e >= q + 1 /\ Boundary(t, e + 1)}
    IN  IF Boundary(t, i) /\ tlds # {}
        THEN RunEnd(t, Greatest(tlds), Letters) ELSE 0

\* \b[a-fA-F0-9]{n}\b
MatchHash(t, i, n) ==
    IF /\ Boundary(t, i)
       /\ i + n - 1 <= Len(t)
       /\ \A j \in i..(i + n - 1) : Ch(t, j) \in HexDigits
       /\ Boundary(t, i + n)
    THEN i + n - 1 ELSE 0

\* self.patterns, in the order of the dict
patterns == <<"ipv4", "url", "email", "domain", "md5", "sha1", "sha256">>

Match(ioc_type, t, i) ==
    CASE ioc_type = "ipv4" -> MatchIpv4(t, i)
      [] ioc_type = "url" -> MatchUrl(t, i)
      [] ioc_type = "email" -> MatchEmail(t, i)
      [] ioc_type = "domain" -> MatchDomain(t, i)
      [] ioc_type = "md5" -> MatchHash(t, i, 32)
      [] ioc_type = "sha1" -> MatchHash(t, i, 40)
      [] ioc_type = "sha256" -> MatchHash(t, i, 64)

\* the matches among the starts, from position i on
RECURSIVE FindFrom(_, _, _, _)
FindFrom(ioc_type, t, starts, i) ==
    LET rest == {s \in starts : s >= i}
    IN  IF rest = {} THEN <<>>
        ELSE LET s == Least(rest)
                 e == Match(ioc_type, t, s)
             IN  <<SubSeq(t, s, e)>> \o FindFrom(ioc_type, t, starts, e + 1)

\* re.findall(pattern, text, re.IGNORECASE)
findall(ioc_type, t) ==
    FindFrom(ioc_type, t, {i \in 1..Len(t) : Match(ioc_type, t, i) # 0}, 1)

\* matches kept as found
Unique_KeepAll(matches) == matches

\* list(dict.fromkeys(matches)): the first occurrence of each value, in order
Unique(matches) ==
    LET keep == {k \in 1..Len(matches) : \A m \in 1..(k - 1) : matches[m] # matches[k]}
    IN  [n \in 1..Cardinality(keep) |->
            matches[CHOOSE k \in keep : Cardinality({m \in keep : m <= k}) = n]]

\* extract_iocs: the dict, as the list of its items in insertion order
RECURSIVE ExtractFrom(_, _)
ExtractFrom(text, n) ==
    IF n > Len(patterns) THEN <<>>
    ELSE LET unique_matches == Unique(findall(patterns[n], text))
         IN  (IF unique_matches # <<>>
              THEN <<[ioc_type |-> patterns[n], values |-> unique_matches]>>
              ELSE <<>>) \o ExtractFrom(text, n + 1)

extract_iocs(text) == ExtractFrom(text, 1)

severity_tlds == <<".tk", ".ml", ".ga", ".cf", ".gq", ".xyz", ".top">>

\* a severity that does not look at the value
_determine_severity_NoTld(ioc_type, value) ==
    IF ioc_type \in {"md5", "sha1", "sha256"} THEN "high"
    ELSE IF ioc_type \in {"ipv4", "url"} THEN "medium"
    ELSE "low"

\* a severity that looks for the top-level domains in the value as written
_determine_severity_CaseSensitive(ioc_type, value) ==
    LET suspicious == \E i \in 1..Len(severity_tlds) : Contains(value, severity_tlds[i])
    IN  IF ioc_type \in {"md5", "sha1", "sha256"} THEN "high"
        ELSE IF ioc_type = "ipv4" THEN "medium"
        ELSE IF ioc_type = "url" THEN (IF suspicious THEN "high" ELSE "medium")
        ELSE IF ioc_type = "domain" THEN (IF suspicious THEN "high" ELSE "low")
        ELSE "low"

_determine_severity(ioc_type, value) ==
    LET suspicious == \E i \in 1..Len(severity_tlds) : Contains(lower(value), severity_tlds[i])
    IN  IF ioc_type \in {"md5", "sha1", "sha256"} THEN "high"
        ELSE IF ioc_type = "ipv4" THEN "medium"
        ELSE IF ioc_type = "url" THEN (IF suspicious THEN "high" ELSE "medium")
        ELSE IF ioc_type = "domain" THEN (IF suspicious THEN "high" ELSE "low")
        ELSE "low"

\* the indicators of the items of a dict from the n-th on
RECURSIVE IocList(_, _)
IocList(extracted_iocs, n) ==
    IF n > Len(extracted_iocs) THEN <<>>
    ELSE LET item == extracted_iocs[n]
         IN  [k \in 1..Len(item.values) |->
                 [ioc_type |-> item.ioc_type,
                  ioc_value |-> item.values[k],
                  severity |-> _determine_severity(item.ioc_type, item.values[k])]]
             \o IocList(extracted_iocs, n + 1)

\* the quote repr puts around a str: double quotes when the string holds a
\* single quote and no double quote
ReprQuote(s) == IF Contains(s, "'") /\ ~Contains(s, "\"") THEN "\"" ELSE "'"

\* a character inside the repr of a str
ReprChar(c, quote) ==
    IF c = "\\" THEN "\\\\"
    ELSE IF c = quote THEN "\\" \o quote
    ELSE IF c = NewLine THEN "\\n"
    ELSE IF c = "\t" THEN "\\t"
    ELSE IF c = "\r" THEN "\\r"
    ELSE IF c = "\f" THEN "\\x0c"
    ELSE IF c = NoBreakSpace THEN "\\xa0"
    ELSE IF c = SoftHyphen THEN "\\xad"
    ELSE c

\* the characters of s as the repr writes them
RECURSIVE ReprChars(_, _)
ReprChars(s, quote) ==
    IF Len(s) = 0 THEN ""
    ELSE IF Len(s) = 1 THEN ReprChar(s, quote)
    ELSE ReprChars(SubSeq(s, 1, Len(s) \div 2), quote)
         \o ReprChars(SubSeq(s, Len(s) \div 2 + 1, Len(s)), quote)

\* repr(s) of a str
repr(s) == ReprQuote(s) \o ReprChars(s, ReprQuote(s)) \o ReprQuote(s)

\* str(email_data['headers']): the repr of a dict of strings, given as the
\* list of its items
RECURSIVE ItemsText(_, _)
ItemsText(headers, n) ==
    IF n > Len(headers) THEN ""
    ELSE (IF n > 1 THEN ", " ELSE "")
         \o repr(headers[n][1]) \o ": " \o repr(headers[n][2])
         \o ItemsText(headers, n + 1)

HeadersText(headers) == "{" \o ItemsText(headers, 1) \o "}"

combined_text(email_data) ==
    (IF "sender" \in DOMAIN email_data THEN email_data.sender \o NewLine ELSE "")
    \o (IF "subject" \in DOMAIN email_data THEN email_data.subject \o NewLine ELSE "")
    \o (IF "body" \in DOMAIN email_data THEN email_data.body \o NewLine ELSE "")
    \o (IF "headers" \in DOMAIN email_data
        THEN HeadersText(email_data.headers) \o NewLine ELSE "")

extract_from_email(email_data) == IocList(extract_iocs(combined_text(email_data)), 1)

(***************************************************************************)
(* The indicator extractor called on its own, and the handler's analysis   *)
(* of a parsed e-mail (extraction, then the rule engine on what was        *)
(* extracted), on texts and e-mails drawn from bounded sets.               *)
(***************************************************************************)
IocTexts ==
    {"",
     "10.0.0.1 10.0.0.2 10.0.0.1 8.8.8.8 10.0.0.2",
     "256.1.1.1 1.2.3.4.5 a1.2.3.4 1.2.3.4b 001.02.3.255 249.250.199.0",
     "Contact us at admin@example.com or visit http://example.com IP address: 192.168.1.1",
     "Suspicious link: http://malicious.tk/phishing MD5 hash: 5d41402abc4b2a76b9719d911017c592",
     "HTTP://A.tk http://a.tk https://x.y/z?q=1#frag http://a.tk",
     "x.y@c.de a@b.c a@b.cd1 a@b.cd.ef1 A@B.COM x.y@c.de",
     "www.example.com1 a_b.com -a.com x.co.uk. q.w3 x.co.uk",
     "da39a3ee5e6b4b0d3255bfef95601890afd80709 DA39A3EE5E6B4B0D3255BFEF95601890AFD80709",
     "e3b0c44298fc1c149afbf4c8996fb92427ae41e4649b934ca495991b7852b855 g5d41402abc4b2a76b9719d911017c592",
     "café1.2.3.4 ²5.6.7.8 9.9.9.9É 7.7.7.7" \o NoBreakSpace \o "6.6.6.6 résumé@café.example.com",
     "1..2.3.4.5 256.1.1.1.1 1.2.3.4.5.6.7.8 a-10.0.0.1 10.0.0.2_ 0.0.0.0\t255.255.255.255\n"}

\* texts of up to MaxIps dotted quads separated by blanks, one of them
\* not a valid address
\* words: valid dotted quads, an octet above 255, a fifth number, a quad
\* glued to a letter
IpAddresses ==
    {"10.0.0.1", "8.8.8.8", "255.255.255.0", "256.1.1.1", "1.2.3.4.5", "x8.8.8.8"}

RECURSIVE JoinBlank(_)
JoinBlank(words) ==
    IF Len(words) = 1 THEN words[1] ELSE words[1] \o " " \o JoinBlank(Tail(words))

IpTexts == {JoinBlank(words) : words \in UNION {[1..n -> IpAddresses] : n \in 1..MaxIps}}

\* the headers of a parsed e-mail, as the list of the items of the dict
HeaderDicts ==
    {<<>>,
     <<<<"From", "help@prizes.XYZ">>, <<"Received", "from 10.0.0.5">>>>,
     <<<<"Subject", "It's \"here\":\tsee\nevil.tk">>,
       <<"X-Note", "don't open 10.0.0.6\\share">>,
       <<"To", "Renée" \o NoBreakSpace \o "<r@b.co>">>>>}

IocBodies ==
    Bodies \cup
    {"Server 192.168.1.1 is down. Please verify your password at http://example.com",
     "Hashes 5d41402abc4b2a76b9719d911017c592 and 5d41402abc4b2a76b9719d911017c592"}

\* parsed e-mails, with the keys of keep only
IocEmails ==
    {[sender |-> f, subject |-> s, body |-> b] :
        f \in Senders, s \in Subjects, b \in IocBodies}
    \cup {Restrict([sender |-> ExampleEmail.sender, subject |-> ExampleEmail.subject,
                    body |-> b, headers |-> h], keep) :
            b \in IocBodies, h \in HeaderDicts,
            keep \in SUBSET {"sender", "subject", "body", "headers"}}

IocValues ==
    {"http://secure-bank.tk/login", "http://example.com", "HTTP://EVIL.XYZ/a",
     "http://stop.topic.com", "secure-bank.tk", "example.com", "10.0.0.1",
     "bob@site.xyz", "5d41402abc4b2a76b9719d911017c592"}

CallExtractIocs ==
    /\ call.fn = "extract_iocs"
    /\ ret = NoCall
    /\ ret' = [fn |-> "extract_iocs", iocs |-> extract_iocs(call.text)]
    /\ resp' = NoResponse
    /\ UNCHANGED <<now, fs, emails, srv, req, retr, hist, sched, script, call>>

CallExtractFromEmail ==
    /\ call.fn = "extract_from_email"
    /\ ret = NoCall
    /\ ret' = [fn |-> "extract_from_email", ioc_list |-> extract_from_email(call.email_data)]
    /\ resp' = NoResponse
    /\ UNCHANGED <<now, fs, emails, srv, req, retr, hist, sched, script, call>>

CallDetermineSeverity ==
    /\ call.fn = "_determine_severity"
    /\ ret = NoCall
    /\ ret' = [fn |-> "_determine_severity",
               severity |-> _determine_severity(call.ioc_type, call.value)]
    /\ resp' = NoResponse
    /\ UNCHANGED <<now, fs, emails, srv, req, retr, hist, sched, script, call>>

\* upload_email without a model: lines 269, 321-322 and 379
CallAnalyze ==
    /\ call.fn = "analyze"
    /\ ret = NoCall
    /\ LET extracted_iocs == extract_from_email(call.email_data)
           email_data == ReadEmail(call.email_data, extracted_iocs)
           is_phishing == detect_phishing_simple(email_data, extracted_iocs)
           confidence_score == calculate_confidence_score(email_data, extracted_iocs)
       IN  ret' = [fn |-> "analyze",
                   iocs |-> extracted_iocs,
                   is_phishing |-> is_phishing,
                   confidence_score |-> confidence_score,
                   risk_level |-> get_risk_level(is_phishing, confidence_score)]
    /\ resp' = NoResponse
    /\ UNCHANGED <<now, fs, emails, srv, req, retr, hist, sched, script, call>>

InitIocs ==
    /\ SystemAtRest
    /\ call \in {[fn |-> "extract_iocs", text |-> t] : t \in IocTexts \cup IpTexts}
               \cup {[fn |-> "extract_from_email", email_data |-> e] : e \in IocEmails}
               \cup {[fn |-> "_determine_severity", ioc_type |-> t, value |-> v] :
                        t \in SeqToSet(patterns), v \in IocValues}
               \cup {[fn |-> "analyze", email_data |-> e] : e \in IocEmails}
    /\ ret = NoCall

NextIocs ==
    \/ CallExtractIocs
    \/ CallExtractFromEmail
    \/ CallDetermineSeverity
    \/ CallAnalyze

SpecIocs == InitIocs /\ [][NextIocs]_vars

(***************************************************************************)
(* IOCExtractor.defang_url, called on its own on urls put together from    *)
(* up to MaxPieces pieces.                                                 *)
(***************************************************************************)
\* str.replace(old, new, 1)
replace_First(s, old, new) ==
    LET found == {j \in 1..Len(s) : At(s, j, old)}
    IN  IF found = {} THEN s
        ELSE SubSeq(s, 1, Least(found) - 1) \o new
                 \o SubSeq(s, Least(found) + Len(old), Len(s))

\* str.replace(old, new): the occurrences that do not overlap, from the left
RECURSIVE replace(_, _, _)
replace(s, old, new) ==
    LET found == {j \in 1..Len(s) : At(s, j, old)}
    IN  IF found = {} THEN s
        ELSE SubSeq(s, 1, Least(found) - 1) \o new
                 \o replace(SubSeq(s, Least(found) + Len(old), Len(s)), old, new)

defang_url(url) ==
    replace(replace(replace(url, "http://", "hxxp://"), "https://", "hxxps://"),
            ".", "[.]")

MaxPieces == 3

UrlPieces == {"http://", "https://", ".", "a", "[.]", "http:/", "hxxp://", "HTTP://"}

RECURSIVE Joined(_)
Joined(n) ==
    IF n = 0 THEN {""} ELSE Joined(n - 1) \cup {u \o p : u \in Joined(n - 1), p \in UrlPieces}

DefangUrls == Joined(MaxPieces) \cup {"http://secure-bank.tk/login", "https://a.b.c/x.html"}

CallDefangUrl ==
    /\ call.fn = "defang_url"
    /\ ret = NoCall
    /\ ret' = [fn |-> "defang_url", defanged |-> defang_url(call.url)]
    /\ resp' = NoResponse
    /\ UNCHANGED <<now, fs, emails, srv, req, retr, hist, sched, script, call>>

InitDefang ==
    /\ SystemAtRest
    /\ call \in {[fn |-> "defang_url", url |-> u] : u \in DefangUrls}
    /\ ret = NoCall

NextDefang == CallDefangUrl

SpecDefang == InitDefang /\ [][NextDefang]_vars

(***************************************************************************)
(* ml/feature_extraction.py: FeatureExtractor.  A feature dict is a        *)
(* function from feature names to values: counts and lengths are           *)
(* integers, flags booleans, and a mean or a ratio the pair of its         *)
(* numerator and denominator.                                              *)
(***************************************************************************)
FeatureExtractor_urgency_words ==
    <<"urgent", "immediately", "action required", "verify", "suspend",
      "limited time", "act now", "confirm", "expires", "update", "warning">>

FeatureExtractor_suspicious_keywords ==
    <<"password", "credit card", "social security", "bank account",
      "verify account", "click here", "winner", "prize", "lottery",
      "inheritance", "transfer", "refund", "tax", "suspended">>

FeatureExtractor_suspicious_tlds ==
    <<".tk", ".ml", ".ga", ".cf", ".gq", ".xyz", ".top", ".work",
      ".click", ".link", ".download", ".stream">>

shortened_domains == <<"bit.ly", "tinyurl", "goo.gl", "t.co", "ow.ly">>

\* str.split(): the characters that separate words (str.isspace)
WhiteSpace == {" ", NewLine, "\t", "\r", "\f", NoBreakSpace}

Ratio(n, d) == [num |-> n, den |-> d]

\* the number of positions of t that hold a character of class
CountChars(t, class) == Cardinality({i \in 1..Len(t) : Ch(t, i) \in class})

\* len(text.split()): the positions where a word starts
NumWords(t) ==
    Cardinality({i \in 1..Len(t) :
        Ch(t, i) \notin WhiteSpace /\ (i = 1 \/ Ch(t, i - 1) \in WhiteSpace)})

\* sum(text.count(word) for word in words)
RECURSIVE SumCounts(_, _, _)
SumCounts(t, words, n) ==
    IF n > Len(words) THEN 0 ELSE StrCount(t, words[n]) + SumCounts(t, words, n + 1)

\* any(word in text for word in words)
AnyIn(t, words) == \E n \in 1..Len(words) : Contains(t, words[n])

\* re.search(r'\d{1,3}\.\d{1,3}\.\d{1,3}\.\d{1,3}', url); \d is a decimal
\* digit, of which the alphabet has the ten of ASCII
SearchDottedDigits(url) ==
    \E d1 \in 1..Len(url) :
        /\ Ch(url, d1) = "."
        /\ Ch(url, d1 - 1) \in DigitChars
        /\ \E d2 \in (d1 + 2)..(d1 + 4) :
               /\ Ch(url, d2) = "."
               /\ \A i \in (d1 + 1)..(d2 - 1) : Ch(url, i) \in DigitChars
               /\ \E d3 \in (d2 + 2)..(d2 + 4) :
                      /\ Ch(url, d3) = "."
                      /\ \A i \in (d2 + 1)..(d3 - 1) : Ch(url, i) \in DigitChars
                      /\ Ch(url, d3 + 1) \in DigitChars

extract_text_features(text) ==
    [length |-> Len(text),
     num_words |-> NumWords(text),
     num_sentences |-> StrCount(text, ".") + StrCount(text, "!") + StrCount(text, "?"),
     avg_word_length |->
         IF NumWords(text) > 0
         THEN Ratio(Len(text) - CountChars(text, WhiteSpace), NumWords(text))
         ELSE Ratio(0, 1),
     num_exclamation |-> StrCount(text, "!"),
     num_question |-> StrCount(text, "?"),
     num_uppercase |-> CountChars(text, UpperChars),
     uppercase_ratio |->
         IF Len(text) > 0
         THEN Ratio(CountChars(text, UpperChars), Len(text))
         ELSE Ratio(0, 1)]

\* lines 65-83: the features of the urls found in the text
url_features(urls) ==
    LET lengths == {Len(urls[n]) : n \in 1..Len(urls)}
    IN  [num_links |-> Len(urls),
         has_shortened_url |->
             \E n \in 1..Len(urls) : AnyIn(lower(urls[n]), shortened_domains),
         has_suspicious_tld |->
             \E n \in 1..Len(urls) : AnyIn(lower(urls[n]), FeatureExtractor_suspicious_tlds),
         has_ip_address |-> \E n \in 1..Len(urls) : SearchDottedDigits(urls[n]),
         num_at_symbols |-> SumSeq([n \in 1..Len(urls) |-> StrCount(urls[n], "@")]),
         avg_url_length |->
             IF urls # <<>>
             THEN Ratio(SumSeq([n \in 1..Len(urls) |-> Len(urls[n])]), Len(urls))
             ELSE Ratio(0, 1),
         max_url_length |-> IF urls # <<>> THEN Greatest(lengths) ELSE 0]

\* line 62: urls = re.findall(url_pattern, text)
extract_url_features(text) == url_features(findall("url", text))

extract_email_features(email_data) ==
    LET sender == Get(email_data, "sender", "")
        subject == Get(email_data, "subject", "")
        body == Get(email_data, "body", "")
    IN  [subject_length |-> Len(subject),
         body_length |-> Len(body),
         sender_has_numbers |-> CountChars(sender, DigitChars) > 0, \* \d, as above
         num_recipients |-> Len(Get(email_data, "recipients", <<>>)),
         has_attachments |-> Len(Get(email_data, "attachments", <<>>)) > 0,
         num_attachments |-> Len(Get(email_data, "attachments", <<>>))]

extract_keyword_features(text) ==
    LET text_lower == lower(text)
    IN  [num_urgency_words |-> SumCounts(text_lower, FeatureExtractor_urgency_words, 1),
         has_urgency_words |-> AnyIn(text_lower, FeatureExtractor_urgency_words),
         num_suspicious_keywords |->
             SumCounts(text_lower, FeatureExtractor_suspicious_keywords, 1),
         has_suspicious_keywords |->
             AnyIn(text_lower, FeatureExtractor_suspicious_keywords)]

\* float() of a count and of a flag
FloatOfInt(n) == n
FloatOfBool(b) == IF b THEN 1 ELSE 0

\* indicator features that exist only for the keys the e-mail holds
extract_ioc_features_Sparse(email_data) ==
    LET full == [ioc_total_count |-> "ioc_count", has_ipv4_ioc |-> "has_ipv4",
                 has_url_ioc |-> "has_url", has_email_ioc |-> "has_email",
                 has_hash_ioc |-> "has_hash", ipv4_ioc_count |-> "ipv4_count",
                 url_ioc_count |-> "url_count", email_ioc_count |-> "email_count",
                 domain_ioc_count |-> "domain_count"]
    IN  [name \in {f \in DOMAIN full : full[f] \in DOMAIN email_data} |->
            IF name \in {"has_ipv4_ioc", "has_url_ioc", "has_email_ioc", "has_hash_ioc"}
            THEN FloatOfBool(email_data[full[name]])
            ELSE FloatOfInt(email_data[full[name]])]

extract_ioc_features(email_data) ==
    [ioc_total_count |-> FloatOfInt(Get(email_data, "ioc_count", 0)),
     has_ipv4_ioc |-> FloatOfBool(Get(email_data, "has_ipv4", FALSE)),
     has_url_ioc |-> FloatOfBool(Get(email_data, "has_url", FALSE)),
     has_email_ioc |-> FloatOfBool(Get(email_data, "has_email", FALSE)),
     has_hash_ioc |-> FloatOfBool(Get(email_data, "has_hash", FALSE)),
     ipv4_ioc_count |-> FloatOfInt(Get(email_data, "ipv4_count", 0)),
     url_ioc_count |-> FloatOfInt(Get(email_data, "url_count", 0)),
     email_ioc_count |-> FloatOfInt(Get(email_data, "email_count", 0)),
     domain_ioc_count |-> FloatOfInt(Get(email_data, "domain_count", 0))]

\* {**a, **b}
Merge(a, b) == [k \in (DOMAIN a) \cup (DOMAIN b) |-> IF k \in DOMAIN b THEN b[k] ELSE a[k]]

extract_all_features(email_data) ==
    LET subject == Get(email_data, "subject", "")
        body == Get(email_data, "body", "")
        text == subject \o " " \o body
    IN  Merge(Merge(Merge(Merge(extract_text_features(text),
                                extract_url_features(text)),
                          extract_email_features(email_data)),
                    extract_keyword_features(text)),
              extract_ioc_features(email_data))

\* the characters of the feature names, in the order of their codes
CodeOrder == "0123456789_abcdefghijklmnopqrstuvwxyz"

CodeOf == [c \in CharsOf(CodeOrder) \cup {""} |->
              CHOOSE n \in 0..Len(CodeOrder) : Ch(CodeOrder, n) = c]

Code(c) == CodeOf[c]

\* a < b from position i on, the strings being equal before it
RECURSIVE LessFrom(_, _, _)
LessFrom(a, b, i) ==
    IF i > Len(b) THEN FALSE
    ELSE IF Ch(a, i) = Ch(b, i) THEN LessFrom(a, b, i + 1)
    ELSE Code(Ch(a, i)) < Code(Ch(b, i))

\* a < b for strings
StrLess(a, b) == LessFrom(a, b, 1)

\* the keys of a dict in the order they were inserted
feature_keys ==
    <<"length", "num_words", "num_sentences", "avg_word_length", "num_exclamation",
      "num_question", "num_uppercase", "uppercase_ratio",
      "num_links", "has_shortened_url", "has_suspicious_tld", "has_ip_address",
      "num_at_symbols", "avg_url_length", "max_url_length",
      "subject_length", "body_length", "sender_has_numbers", "num_recipients",
      "has_attachments", "num_attachments",
      "num_urgency_words", "has_urgency_words", "num_suspicious_keywords",
      "has_suspicious_keywords",
      "ioc_total_count", "has_ipv4_ioc", "has_url_ioc", "has_email_ioc",
      "has_hash_ioc", "ipv4_ioc_count", "url_ioc_count", "email_ioc_count",
      "domain_ioc_count">>

\* features.keys() as iterated, without sorting
sorted_Unsorted(keys) == SelectSeq(feature_keys, LAMBDA k : k \in keys)

\* the keys of a dict as a list
RECURSIVE KeyList(_)
KeyList(keys) ==
    IF keys = {} THEN <<>>
    ELSE LET k == CHOOSE k \in keys : TRUE IN <<k>> \o KeyList(keys \ {k})

\* two sorted lists merged
RECURSIVE MergeLists(_, _)
MergeLists(a, b) ==
    IF a = <<>> THEN b
    ELSE IF b = <<>> THEN a
    ELSE IF StrLess(b[1], a[1]) THEN <<b[1]>> \o MergeLists(a, Tail(b))
    ELSE <<a[1]>> \o MergeLists(Tail(a), b)

\* a list sorted by merging its sorted halves
RECURSIVE SortList(_)
SortList(list) ==
    IF Len(list) <= 1 THEN list
    ELSE MergeLists(SortList(SubSeq(list, 1, Len(list) \div 2)),
                    SortList(SubSeq(list, Len(list) \div 2 + 1, Len(list))))

\* sorted(features.keys()): the keys, which are distinct, in ascending
\* order of str
sorted(keys) == SortList(KeyList(keys))

\* float(features[name])
Float(name, value) ==
    IF name \in {"has_shortened_url", "has_suspicious_tld", "has_ip_address",
                 "sender_has_numbers", "has_attachments", "has_urgency_words",
                 "has_suspicious_keywords"}
    THEN FloatOfBool(value) ELSE value

\* the values of the features in the order of the names
VectorOf(features, feature_names) ==
    [n \in 1..Len(feature_names) |-> features[feature_names[n]]]

\* feature_names = sorted(features.keys()) and the values in that order
OrderedRow(features) ==
    LET feature_names == sorted(DOMAIN features)
    IN  [feature_names |-> feature_names,
         feature_vector |-> VectorOf(features, feature_names)]

\* get_feature_vector, lines 207-217: every value goes through float()
Floats(features) == [name \in DOMAIN features |-> Float(name, features[name])]

get_feature_vector(email_data) == OrderedRow(Floats(extract_all_features(email_data)))

\* [features[key] for key in sorted(features.keys())], lines 294-295 and
\* 343-344 of ml/phishing_ml_model.py, with the keys
FeatureRow(email_data) == OrderedRow(extract_all_features(email_data))

(***************************************************************************)
(* The feature extractor called on its own, the feature rows of training   *)
(* and inference, and the functions that read a parsed e-mail, on e-mails  *)
(* in which any key may be absent.                                         *)
(***************************************************************************)
\* lines 143-149: ioc_counts.get(ioc_type, 0)
ioc_counts(iocs, ioc_type) ==
    Cardinality({n \in 1..Len(iocs) : iocs[n].ioc_type = ioc_type})

\* prepare_training_data, lines 152-168: the record of a stored e-mail
\* and of the indicators stored for it
training_email_data(email, iocs) ==
    [subject |-> email.subject,
     sender |-> email.sender,
     body |-> email.body,
     full_text |-> email.subject \o " " \o email.body,
     ioc_count |-> Len(iocs),
     has_ipv4 |-> ioc_counts(iocs, "ipv4") > 0,
     has_url |-> ioc_counts(iocs, "url") > 0,
     has_email |-> ioc_counts(iocs, "email") > 0,
     has_hash |-> ioc_counts(iocs, "md5") + ioc_counts(iocs, "sha256") > 0,
     ipv4_count |-> ioc_counts(iocs, "ipv4"),
     url_count |-> ioc_counts(iocs, "url"),
     email_count |-> ioc_counts(iocs, "email"),
     domain_count |-> ioc_counts(iocs, "domain")]

\* app.py, lines 246-253: the columns of the row upload_email stores
email_record(email_data) ==
    [sender |-> Get(email_data, "sender", ""),
     subject |-> Get(email_data, "subject", ""),
     body |-> Get(email_data, "body", "")]

\* the record prepare_training_data builds for a parsed e-mail once
\* upload_email has stored it and its indicators (auto_retrain.py 140-168):
\* subject, sender, body, full_text and the indicator summary.  The
\* recipients, attachments and headers are no columns of the row and are
\* not in the record
IocSummary(email_data) ==
    training_email_data(email_record(email_data), extract_from_email(email_data))

\* two parsed e-mails
ExampleEmails ==
    {[sender |-> ExampleEmail.sender, subject |-> ExampleEmail.subject,
      body |-> ExampleEmail.body, recipients |-> <<"bob@example.com">>,
      attachments |-> <<"invoice.pdf">>, headers |-> <<>>],
     [sender |-> "bob99@example.com", subject |-> "Re: LUNCH at the Café?",
      body |-> "See https://bit.ly/x and http://192.168.1.1/x!\tNo password needed,"
               \o NoBreakSpace \o "René.",
      recipients |-> <<"a@example.com", "b@example.com">>,
      attachments |-> <<>>,
      headers |-> <<<<"From", "bob99@example.com">>>>]}

\* dicts with every key the feature extractor reads: the fields of a
\* parsed e-mail beside the keys of its training record.  No step of the
\* program builds such a dict; the functions called on it take any dict,
\* and the dicts the program does build are its restrictions (the parsed
\* e-mail, the training record)
FullEmails == {Merge(email_data, IocSummary(email_data)) : email_data \in ExampleEmails}

SummaryKeys ==
    {"ioc_count", "has_ipv4", "has_url", "has_email", "has_hash",
     "ipv4_count", "url_count", "email_count", "domain_count"}

FieldKeys == {"sender", "subject", "body", "recipients", "attachments", "headers"}

\* the keys prepare_training_data adds
RecordKeys == SummaryKeys \cup {"full_text"}

\* the keys an e-mail is left with: any of the fields with all that
\* prepare_training_data adds, or every field with none of it or all of it
\* but one key
KeySets ==
    {fields \cup RecordKeys : fields \in SUBSET FieldKeys}
    \cup {FieldKeys \cup added :
            added \in {{}} \cup {RecordKeys \ {k} :
                                    k \in {"has_hash", "url_count", "full_text"}}}
    \cup {{}}

FeatureEmails == {Restrict(e, keep) : e \in FullEmails, keep \in KeySets}

\* the e-mails a training run is given: at most MaxTrain of them
MaxTrain == 4

\* the keys of the record prepare_training_data builds
TrainingKeys == {"subject", "sender", "body"} \cup RecordKeys

\* a record as prepare_training_data builds it, a dict with a subject and
\* a body only, and the empty dict
TrainEmails ==
    {IocSummary(CHOOSE e \in ExampleEmails : e.sender = ExampleEmail.sender),
     Restrict(CHOOSE e \in ExampleEmails : e.sender # ExampleEmail.sender,
              {"subject", "body"}),
     <<>>}

\* the lists of n of them
RECURSIVE TrainLists(_)
TrainLists(n) ==
    IF n = 0 THEN {<<>>}
    ELSE {Append(l, e) : l \in TrainLists(n - 1), e \in TrainEmails}

\* the labels given with n e-mails: the legitimate ones first, with any
\* number of phishing ones, or a label short
TrainLabels(n) ==
    {[i \in 1..m |-> IF i > m - k THEN 1 ELSE 0] : m \in {n - 1, n} \cap Nat, k \in 0..n}

\* lines 285-291: the text of an e-mail, full_text when it has one that is
\* not empty
TrainText(email_data) ==
    IF "full_text" \in DOMAIN email_data /\ email_data.full_text # ""
    THEN email_data.full_text
    ELSE Get(email_data, "subject", "") \o " " \o Get(email_data, "body", "")

\* line 299: TfidfVectorizer.fit_transform raises ValueError (empty
\* vocabulary) on texts without a word; it may raise on others
NoWords(emails_data) ==
    \A n \in 1..Len(emails_data) : NumWords(TrainText(emails_data[n])) = 0

\* the calls of train_on_custom_data
TrainCalls ==
    {[fn |-> "train_on_custom_data", emails_data |-> l, labels |-> labels, fit |-> fit] :
        l \in TrainLists(MaxTrain - 1) \cup TrainLists(MaxTrain),
        labels \in TrainLabels(MaxTrain - 1) \cup TrainLabels(MaxTrain),
        fit \in Fits}

CallExtractAllFeatures ==
    /\ call.fn = "extract_all_features"
    /\ ret = NoCall
    /\ ret' = [fn |-> "extract_all_features",
               features |-> extract_all_features(call.email_data)]
    /\ resp' = NoResponse
    /\ UNCHANGED <<now, fs, emails, srv, req, retr, hist, sched, script, call>>

CallGetFeatureVector ==
    /\ call.fn = "get_feature_vector"
    /\ ret = NoCall
    /\ ret' = [fn |-> "get_feature_vector", row |-> get_feature_vector(call.email_data)]
    /\ resp' = NoResponse
    /\ UNCHANGED <<now, fs, emails, srv, req, retr, hist, sched, script, call>>

\* predict, lines 343-344: the structural part of the vector
CallPredictFeatures ==
    /\ call.fn = "predict"
    /\ ret = NoCall
    /\ ret' = [fn |-> "predict", row |-> FeatureRow(call.email_data)]
    /\ resp' = NoResponse
    /\ UNCHANGED <<now, fs, emails, srv, req, retr, hist, sched, script, call>>

\* train_on_custom_data, lines 266-320: a failed check raises before any
\* feature is extracted; else texts and feature_vectors are built, e-mail
\* by e-mail, and handed to the vectorizer and the classifier
CallTrainFeatures ==
    /\ call.fn = "train_on_custom_data"
    /\ ret = NoCall
    /\ LET error == ValueError(call.emails_data, call.labels)
           trained == train_on_custom_data(call.emails_data, call.labels, call.fit)
       IN  ret' = [fn |-> "train_on_custom_data",
                   returned |-> trained.returned,
                   error |-> error,
                   texts |-> IF error # None THEN <<>>
                             ELSE [n \in 1..Len(call.emails_data) |->
                                      TrainText(call.emails_data[n])],
                   rows |-> IF error # None THEN <<>>
                            ELSE [n \in 1..Len(call.emails_data) |->
                                     FeatureRow(call.emails_data[n])]]
    /\ resp' = NoResponse
    /\ UNCHANGED <<now, fs, emails, srv, req, retr, hist, sched, script, call>>

InitFeatures ==
    /\ SystemAtRest
    /\ call \in {[fn |-> f, email_data |-> e] :
                    f \in {"extract_all_features", "get_feature_vector", "predict",
                           "extract_from_email"},
                    e \in FeatureEmails}
               \cup {c \in TrainCalls :
                        /\ Len(c.labels) \in {Len(c.emails_data), Len(c.emails_data) - 1}
                        /\ NoWords(c.emails_data) => c.fit = "vectorizer raised"}
               \cup {[fn |-> "rules", email_data |-> e, iocs |-> <<Ioc("url", "high")>>] :
                        e \in FeatureEmails}
    /\ ret = NoCall

NextFeatures ==
    \/ CallExtractAllFeatures
    \/ CallGetFeatureVector
    \/ CallPredictFeatures
    \/ CallTrainFeatures
    \/ CallExtractFromEmail
    \/ CallRules

SpecFeatures == InitFeatures /\ [][NextFeatures]_vars

(***************************************************************************)
(* One e-mail from upload to retraining: upload_email stores the e-mail    *)
(* and its indicators and hands the parsed e-mail to predict; later        *)
(* prepare_training_data builds the record of the stored e-mail and        *)
(* train_on_custom_data encodes it.                                        *)
(***************************************************************************)
\* what the parser hands to upload_email: email_parser.py, lines 30-39
UploadBodies ==
    {"",
     "Lunch at noon?",
     ExampleEmail.body,
     "Server 192.168.1.1 is down. Write to admin@example.com",
     "Checksum da39a3ee5e6b4b0d3255bfef95601890afd80709",
     "MD5 5d41402abc4b2a76b9719d911017c592 SHA1 da39a3ee5e6b4b0d3255bfef95601890afd80709",
     "e3b0c44298fc1c149afbf4c8996fb92427ae41e4649b934ca495991b7852b855 http://a.tk http://b.com"}

ParsedEmails ==
    {[sender |-> f, recipients |-> r, subject |-> s, headers |-> <<>>, body |-> b,
      attachments |-> a] :
        f \in {"", "alice@example.com"},
        r \in {<<>>, <<"bob@example.com">>},
        s \in {"", "Your invoice"},
        b \in UploadBodies,
        a \in {<<>>, <<"invoice.pdf">>}}

\* the structural vector of an e-mail that predict has not been given
NoRow == [feature_names |-> <<>>, feature_vector |-> <<>>]

\* upload_email, lines 246-255: the row of the e-mail is committed with
\* status 'analyzing'; no indicator is stored for it yet
CallUploadEmail ==
    /\ call.fn = "upload_email"
    /\ ret = NoCall
    /\ ret' = [fn |-> "upload_email",
               status |-> "analyzing",
               email |-> email_record(call.email_data),
               iocs |-> <<>>,
               row |-> NoRow]
    /\ resp' = NoResponse
    /\ UNCHANGED <<now, fs, emails, srv, req, retr, hist, sched, script, call>>

\* upload_email, lines 268-345: the indicators are extracted, predict
\* builds its structural vector from the parsed e-mail, and the second
\* commit stores the indicators with status 'completed'
CallUploadAnalyze ==
    /\ call.fn = "upload_email"
    /\ ret.fn = "upload_email"
    /\ ret.status = "analyzing"
    /\ ret' = [ret EXCEPT !.status = "completed",
                          !.iocs = extract_from_email(call.email_data),
                          !.row = FeatureRow(call.email_data)]
    /\ resp' = NoResponse
    /\ UNCHANGED <<now, fs, emails, srv, req, retr, hist, sched, script, call>>

\* prepare_training_data on what is committed for the e-mail, after
\* either commit, and the structural vector train_on_custom_data builds
\* for its record
CallPrepareAndTrain ==
    /\ ret.fn = "upload_email"
    /\ ret' = [fn |-> "train_on_custom_data",
               status |-> ret.status,
               email |-> ret.email,
               iocs |-> ret.iocs,
               row |-> ret.row,
               email_data |-> training_email_data(ret.email, ret.iocs),
               train_row |-> FeatureRow(training_email_data(ret.email, ret.iocs))]
    /\ resp' = NoResponse
    /\ UNCHANGED <<now, fs, emails, srv, req, retr, hist, sched, script, call>>

InitTraining ==
    /\ SystemAtRest
    /\ call \in {[fn |-> "upload_email", email_data |-> e] : e \in ParsedEmails}
    /\ ret = NoCall

NextTraining ==
    \/ CallUploadEmail
    \/ CallUploadAnalyze
    \/ CallPrepareAndTrain

SpecTraining == InitTraining /\ [][NextTraining]_vars

(***************************************************************************)
(* The system.                                                             *)
(***************************************************************************)
Init ==
    /\ now = 0
    /\ \E f, g \in {NoFile, Artifact(0, "simple-rf-v1.0", 0)} :
           fs = [p \in Paths |-> IF p = model_path THEN f
                                  ELSE IF p = self_model_path THEN g ELSE NoFile]
    /\ emails = <<>>
    /\ srv = ServerDown
    /\ req = NoRequests
    /\ resp = NoResponse
    /\ retr = RetrainerIdle
    /\ hist = [fs_at_start |-> RetrainerFiles(fs), live_at_backup |-> NoFile]
    /\ sched = SchedOff
    /\ script = ScriptOff
    /\ call = NoCall
    /\ ret = NoCall

Next ==
    \/ Tick
    \/ ServerStart
    \/ ServerStop
    \/ UploadReject
    \/ UploadError
    \/ \E sample \in SampleIds : UploadBegin(sample)
    \/ \E r \in req, outcome \in PredictOutcomes : UploadFinish(r, outcome)
    \/ \E r \in req : UploadFail(r)
    \/ \E force \in BOOLEAN, minimum \in 1..MaxMinNew, tz \in TimeZones :
           RetrainModel(force, minimum, tz)
    \/ CheckRaise
    \/ CheckNew
    \/ CheckTotal
    \/ PrepareData
    \/ PrepareRaise
    \/ Backup
    \/ BackupCopy
    \/ BackupStat
    \/ BackupRaise
    \/ \E fit \in Fits : Train(fit)
    \/ SaveOpen
    \/ SaveWrite
    \/ SaveReturn
    \/ SaveRaise
    \/ Kill
    \/ TrainAndSave
    \/ TrainAndSaveWrite
    \/ TrainAndSaveKill

Spec == Init /\ [][Next]_vars

(***************************************************************************)
(* The two halves of the system.  The retrainer writes only its own files  *)
(* (self_model_path and the backups), which the serving process never      *)
(* reads; the serving process and train_and_save write model_path, which   *)
(* the retrainer never reads.  What passes from one half to the other is   *)
(* table emails, which the serving process writes and the retrainer reads. *)
(***************************************************************************)
\* the serving process, its requests, and train_and_save
NextServing ==
    \/ ServerStart
    \/ ServerStop
    \/ UploadReject
    \/ UploadError
    \/ \E sample \in SampleIds : UploadBegin(sample)
    \/ \E r \in req, outcome \in PredictOutcomes : UploadFinish(r, outcome)
    \/ \E r \in req : UploadFail(r)
    \/ TrainAndSave
    \/ TrainAndSaveWrite
    \/ TrainAndSaveKill

SpecServing == Init /\ [][NextServing]_vars

\* the tables a one-shot retrainer finds: rows of analysed e-mails
RetrainHistories ==
    {<<Row(TRUE), Row(TRUE), Row(TRUE), Row(FALSE)>>,
     <<Row(TRUE), Row(TRUE), Row(FALSE), Row(FALSE)>>,
     <<Row(TRUE), Row(TRUE), Row(FALSE)>>}

\* one-shot runs of the retrainer beside a serving process that has
\* started and answers requests
InitRetrain ==
    /\ now = 0
    /\ \E f, g \in {NoFile, Artifact(0, "simple-rf-v1.0", 0)} :
           fs = [p \in Paths |-> IF p = model_path THEN f
                                  ELSE IF p = self_model_path THEN g ELSE NoFile]
    /\ emails \in RetrainHistories
    /\ srv = ModuleLoad(fs[model_path])
    /\ req = NoRequests
    /\ resp = NoResponse
    /\ retr = RetrainerIdle
    /\ hist = [fs_at_start |-> RetrainerFiles(fs), live_at_backup |-> NoFile]
    /\ sched = SchedOff
    /\ script = ScriptOff
    /\ call = NoCall
    /\ ret = NoCall

\* The retrainer reads of an uploaded e-mail only its row and the label
\* is_phishing: the uploads beside it end with the model raising, with the
\* lowest probability or with the highest one, the outcomes that give the
\* row its two labels.
NextRetrain ==
    \/ Tick
    \/ ServerStart
    \/ ServerStop
    \/ \E sample \in SampleIds : UploadBegin(sample)
    \/ \E r \in req, outcome \in {Raise, 0, One} : UploadFinish(r, outcome)
    \/ \E r \in req : UploadFail(r)
    \/ \E force \in BOOLEAN, minimum \in 1..MaxMinNew, tz \in TimeZones :
           RetrainModel(force, minimum, tz)
    \/ CheckRaise
    \/ CheckNew
    \/ CheckTotal
    \/ PrepareData
    \/ PrepareRaise
    \/ Backup
    \/ BackupCopy
    \/ BackupStat
    \/ BackupRaise
    \/ \E fit \in Fits : Train(fit)
    \/ SaveOpen
    \/ SaveWrite
    \/ SaveReturn
    \/ SaveRaise
    \/ Kill

SpecRetrain == InitRetrain /\ [][NextRetrain]_vars

(***************************************************************************)
(* The serving process alone.  A request that upload_email has begun is    *)
(* carried to its return: the handler runs in the server's request thread  *)
(* and either reaches its last commit or leaves through line 383.          *)
(***************************************************************************)
Returns ==
    \E r \in req : \/ \E outcome \in PredictOutcomes : UploadFinish(r, outcome)
                    \/ UploadFail(r)

NextUpload ==
    \/ ServerStart
    \/ ServerStop
    \/ UploadReject
    \/ UploadError
    \/ \E sample \in SampleIds : UploadBegin(sample)
    \/ Returns

SpecUpload ==
    /\ Init
    /\ [][NextUpload]_vars
    /\ WF_vars(Returns)

(***************************************************************************)
(* Properties.                                                             *)
(***************************************************************************)
Range(s) == {s[i] : i \in 1..Len(s)}

\* the rule-based verdict of a response's email
RuleVerdict(r) ==
    detect_phishing_simple(Samples[r.email], Samples[r.email].iocs)
RuleConfidence(r) ==
    calculate_confidence_score(Samples[r.email], Samples[r.email].iocs)

\* C1: when a model is loaded and predict raises, the request still
\* answers 201 with a verdict: is_phishing and confidence are the rule-based
\* results, the recorded model_version is 'rule-based-v1.0', and nothing
\* escapes the detection step (no 500)
C1_PredictRaisesFallsBackToRules ==
    resp.inference = "raised" =>
        /\ resp.status = 201
        /\ resp.available
        /\ resp.is_phishing = RuleVerdict(resp)
        /\ resp.confidence_score = float(RuleConfidence(resp))
        /\ resp.stored_confidence = float(RuleConfidence(resp))
        /\ resp.risk_level = get_risk_level(RuleVerdict(resp), RuleConfidence(resp))
        /\ resp.ml_prediction =
               MLPrediction(RuleVerdict(resp), float(RuleConfidence(resp)) \div 100,
                            "rule-based-v1.0")
        /\ emails[resp.email_id].status = "completed"
        /\ emails[resp.email_id].is_phishing = SqlBool(RuleVerdict(resp))

\* a loaded model raised on a phishing email and the rules answered
C1_Witness ==
    /\ resp.inference = "raised"
    /\ resp.status = 201
    /\ resp.model.rf_model # NoGen
    /\ resp.is_phishing

\* C2: a run in which training raised never saves: retrain_model returns
\* False, SAVE is not among its stages, and the live path holds what it held
\* when the run started
C2_TrainRaisesNoSave ==
    retr.pc = "done" /\ retr.trained = "raised" =>
        /\ retr.result = "False"
        /\ "SAVE" \notin Range(retr.stages)
        /\ fs[self_model_path] = hist.fs_at_start[self_model_path]

\* training raised in a run that found an artifact at the live path
C2_Witness ==
    /\ retr.pc = "done"
    /\ retr.trained = "raised"
    /\ retr.result = "False"
    /\ fs[self_model_path].exists

\* C3: save_model replaces the live artifact atomically: whatever point a
\* save has reached (and whenever it is interrupted or the serving process
\* loads), the live path holds a complete artifact, the previous or the new
\* one, never a partially written file
C3_SaveIsAtomic ==
    /\ \A p \in {model_path, self_model_path} :
           fs[p].exists => IsComplete(fs[p])
    /\ hist.fs_at_start[self_model_path].exists => IsComplete(fs[self_model_path])
    /\ srv.up /\ srv.model_found => srv.ml_model_available

\* C4: a run that reaches TRAIN while a live artifact exists has its backup:
\* a file at a path other than the live path holding what the live path held
\* when backup_current_model ran, and the live path is not written before
\* that; without a live artifact the backup step returns no path and writes
\* nothing
C4_BackupBeforeTrain ==
    /\ retr.pc \in {"check_new", "check_total", "prepare", "backup"} =>
           RetrainerFiles(fs) = hist.fs_at_start
    /\ retr.pc \in {"copying", "train", "save"} =>
           fs[self_model_path] = hist.live_at_backup
    /\ retr.pc \in {"train", "save", "saving", "saved"} =>
           IF hist.live_at_backup.exists
           THEN /\ retr.backup_path # None
                /\ retr.backup_path # self_model_path
                /\ retr.backup_path \in Paths
                /\ Bytes(fs[retr.backup_path]) = Bytes(hist.live_at_backup)
                /\ IsComplete(fs[retr.backup_path]) = IsComplete(hist.live_at_backup)
           ELSE /\ retr.backup_path = None
                /\ \A p \in Paths \ {model_path, self_model_path} :
                       fs[p] = hist.fs_at_start[p]

\* the live artifact is being overwritten and its backup is on disk
C4_Witness ==
    /\ retr.pc = "saving"
    /\ hist.live_at_backup.exists
    /\ retr.backup_path # None
    /\ fs[self_model_path] # hist.live_at_backup

\* the labels prepare_training_data gives a history: 1 for a row stored as
\* phishing, 0 for any other
HistoryLabels == [i \in 1..Len(emails) |-> IF emails[i].is_phishing = "True" THEN 1 ELSE 0]
Count(labels, v) == Cardinality({i \in 1..Len(labels) : labels[i] = v})

\* the PREPARE_DATA step of a run
PrepareStep == retr.pc = "prepare" /\ retr'.pc # "prepare" /\ retr'.pc # "idle"

\* C5: PREPARE_DATA aborts the run exactly when the history has fewer than
\* 4 records or fewer than 2 of either label; [1,1,1,0] aborts, [1,1,0,0]
\* proceeds to BACKUP; an aborted run returns False with no backup, training
\* or save, and the files are what they were when the run started
C5_PrepareAbortsOnSmallOrUnbalanced ==
    /\ [][PrepareStep =>
            /\ (retr'.pc = "done") <=> \/ Len(emails) < 4
                                       \/ Count(HistoryLabels, 1) < 2
                                       \/ Count(HistoryLabels, 0) < 2
            /\ retr'.pc \in {"done", "backup"}
            /\ HistoryLabels = <<1, 1, 1, 0>> => retr'.pc = "done"
            /\ HistoryLabels = <<1, 1, 0, 0>> =>
                   retr'.pc = "backup" /\ retr'.labels = <<1, 1, 0, 0>>
            /\ retr'.pc = "done" => retr'.result = "False" /\ fs' = fs]_vars
    /\ [](retr.pc = "done" /\ retr.stages # <<>>
              /\ retr.stages[Len(retr.stages)] = "PREPARE_DATA" =>
                  /\ retr.result = "False"
                  /\ RetrainerFiles(fs) = hist.fs_at_start)
    /\ [](retr.pc \in {"backup", "copying", "train", "save", "saving", "saved"} =>
              /\ Len(retr.labels) >= 4
              /\ Count(retr.labels, 1) >= 2
              /\ Count(retr.labels, 0) >= 2)

\* the stages of a full run
FullStages(force) ==
    IF force
    THEN <<"PREPARE_DATA", "BACKUP", "TRAIN", "SAVE">>
    ELSE <<"CHECK", "PREPARE_DATA", "BACKUP", "TRAIN", "SAVE">>

IsPrefix(s, t) == Len(s) <= Len(t) /\ \A i \in 1..Len(s) : s[i] = t[i]

\* the stages of a run are in order and none is repeated, CHECK left out
\* only when forced; a run that ended after CHECK or PREPARE_DATA wrote no
\* file; SAVE is reached only after training succeeded
StageOrder ==
    /\ IsPrefix(retr.stages, FullStages(retr.force))
    /\ retr.pc # "idle" /\ ~retr.force => retr.stages # <<>>
    /\ retr.pc = "done" /\ retr.stages # <<>>
           /\ retr.stages[Len(retr.stages)] \in {"CHECK", "PREPARE_DATA"} =>
               /\ retr.result = "False"
               /\ RetrainerFiles(fs) = hist.fs_at_start
    /\ retr.pc = "done" /\ retr.stages = <<>> => retr.result = "False"
    /\ "SAVE" \in Range(retr.stages) => retr.trained = "True"
    /\ "BACKUP" \in Range(retr.stages) /\ Running => retr.training_data = "data"

\* C6: every run goes through CHECK, PREPARE_DATA, BACKUP, TRAIN, SAVE in
\* that order, no stage repeated, CHECK skipped only when forced; a run that
\* ends NOT_NEEDED or ABORT_INSUFFICIENT makes no backup and no write to the
\* live path; SAVE only after TRAIN succeeded; and a run that did not fully
\* succeed (it did not return True) installs nothing at the live path
C6_StagesInOrderFailClosed ==
    /\ StageOrder
    /\ retr.pc = "done" /\ retr.result # "True" =>
           fs[self_model_path] = hist.fs_at_start[self_model_path]

\* a step of CHECK: the run enters check_if_retraining_needed, or goes on
\* in it
CheckStep ==
    \/ ~Running /\ retr'.run = retr.run + 1 /\ ~retr'.force
    \/ retr.pc \in {"check_new", "check_total"} /\ retr'.pc # "idle" /\ retr' # retr

\* the step on which check_if_retraining_needed answers
CheckAnswers == retr'.pc = "prepare" \/ (retr'.pc = "done" /\ retr'.result = "False")

\* the rows uploaded after the instant t
UploadedSince(t) == Cardinality({i \in 1..Len(emails) : emails[i].upload_date > t})

\* C7: with no live artifact check_if_retraining_needed answers true, with
\* a reason, whatever the counts; with one it answers true exactly when the
\* records uploaded after the artifact's mtime, or all the records, number
\* at least min_new_emails, and false with a reason otherwise; a run follows
\* its answer
C7_CheckDecision ==
    /\ [](\A minimum \in 1..MaxMinNew, total \in 0..MaxEmails, new \in 0..MaxEmails :
              LET absent == check_if_retraining_needed(FALSE, new, total, minimum)
                  present == check_if_retraining_needed(TRUE, new, total, minimum)
              IN  /\ absent.should_retrain /\ absent.reason # None
                  /\ present.reason # None
                  /\ present.should_retrain <=> (new >= minimum \/ total >= minimum))
    /\ [][CheckStep =>
              /\ retr'.result # "raised"
              /\ CheckAnswers =>
                     /\ retr'.decision.reason # None
                     /\ retr'.decision.should_retrain
                            <=> \/ ~Exists(fs, self_model_path)
                                \/ UploadedSince(fs[self_model_path].mtime) >= retr'.minimum
                                \/ Len(emails) >= retr'.minimum]_vars

\* what a successful inference fixes besides the confidence: is_phishing =
\* (prediction = 1), the stored confidence 100 * probability, the risk
\* level of these two, and the loaded artifact's model_version
ModelVerdict ==
    /\ resp.status = 201
    /\ resp.available
    /\ ~resp.predicted.raised
    /\ resp.predicted.probability \in Probabilities
    /\ resp.is_phishing = (resp.predicted.prediction = 1)
    /\ resp.stored_confidence = 100 * resp.predicted.probability
    /\ resp.risk_level = get_risk_level(resp.predicted.prediction = 1,
                                        Whole(100 * resp.predicted.probability))
    /\ resp.ml_prediction = MLPrediction(resp.predicted.prediction = 1,
                                         resp.predicted.probability,
                                         resp.model.model_version)
    /\ resp.model.rf_model # NoGen
    /\ emails[resp.email_id].status = "completed"
    /\ emails[resp.email_id].is_phishing = SqlBool(resp.predicted.prediction = 1)

\* C8 as stated: when a model is loaded and inference succeeds, the verdict
\* returned and stored is the model's, and the confidence returned, like
\* the one stored, is 100 * probability
C8_ModelVerdictIsPrimary ==
    resp.inference = "succeeded" =>
        /\ ModelVerdict
        /\ resp.confidence_score = 100 * resp.predicted.probability

\* C8, amended: when a model is loaded and inference succeeds, the verdict
\* returned and stored is the model's: is_phishing = (prediction = 1), the
\* confidence stored is 100 * probability and the confidence returned is
\* that value rounded to two decimals, model_version is the loaded
\* artifact's, and risk_level follows from the label and the unrounded
\* confidence; the rule-based result has no part in them
C8_ModelVerdictRounded ==
    resp.inference = "succeeded" =>
        /\ ModelVerdict
        /\ resp.confidence_score = round(100 * resp.predicted.probability, 2)

\* the model called phishing, at a probability whose percentage has more
\* than two decimals, an email the rules call legitimate
C8_Witness ==
    /\ resp.inference = "succeeded"
    /\ resp.status = 201
    /\ resp.is_phishing
    /\ ~RuleVerdict(resp)
    /\ resp.risk_level = "High"
    /\ resp.stored_confidence # float(RuleConfidence(resp))
    /\ resp.confidence_score # resp.stored_confidence

\* a response of the detection step (not of the handler of line 383 for a
\* failed commit)
DetectionAnswers == resp' # resp /\ resp'.status # 0 /\ resp'.inference # None

\* C9: a serving process that found no file at the live path when it loaded
\* runs on the rules alone: every detection request is answered 201 with the
\* rule-based verdict and model_version 'rule-based-v1.0', inference is not
\* attempted, and load_model on a path that does not exist raises
\* FileNotFoundError
C9_NoArtifactRuleOnly ==
    /\ [](srv.up /\ ~srv.model_found =>
              ~srv.ml_model_available /\ srv.ml_model = NewModel)
    /\ [](~fs[model_path].exists =>
              /\ load_model(fs[model_path]).raised = "FileNotFoundError"
              /\ ModuleLoad(fs[model_path]).ml_model_available = FALSE)
    /\ [][DetectionAnswers /\ ~srv.model_found =>
              /\ resp'.status = 201
              /\ resp'.inference = "not attempted"
              /\ ~resp'.available
              /\ resp'.is_phishing = RuleVerdict(resp')
              /\ resp'.confidence_score = float(RuleConfidence(resp'))
              /\ resp'.ml_prediction =
                     MLPrediction(RuleVerdict(resp'),
                                  float(RuleConfidence(resp')) \div 100,
                                  "rule-based-v1.0")
              /\ emails'[resp'.email_id].status = "completed"
              /\ emails'[resp'.email_id].is_phishing = SqlBool(RuleVerdict(resp'))]_vars

\* a process that started without an artifact answered a phishing email by
\* the rules
C9_Witness ==
    /\ srv.up
    /\ ~srv.model_found
    /\ resp.status = 201
    /\ resp.inference = "not attempted"
    /\ resp.is_phishing
    /\ resp.ml_prediction.model_version = "rule-based-v1.0"

\* C10: a retrain never changes the model of a running serving process:
\* what the process loaded stays as it is while the process is up, every
\* inference runs on it, and the serving process loads an artifact only
\* when it starts (and then the one at its own path)
C10_ServingKeepsLoadedModel ==
    [][/\ srv.up /\ srv'.up => srv' = srv
       /\ DetectionAnswers /\ resp'.inference \in {"succeeded", "raised"} =>
              resp'.model = srv.ml_model
       /\ ~srv.up /\ srv'.up /\ IsComplete(fs[model_path]) =>
              srv'.ml_model.rf_model = fs[model_path].gen]_vars

\* a run is writing the artifact of run 1 to the live path; since the run
\* read the history (the row was unlabelled then) a process that had loaded
\* the artifact before it has answered a request with that one
C10_Witness ==
    /\ retr.pc = "saving"
    /\ fs[self_model_path].gen = 1
    /\ srv.up
    /\ srv.ml_model.rf_model = 0
    /\ resp.status = 201
    /\ resp.inference = "succeeded"
    /\ resp.model.rf_model = 0
    /\ resp.email_id \in 1..Len(retr.labels)
    /\ retr.labels[resp.email_id] = 0
    /\ emails[resp.email_id].is_phishing = "True"

\* C11: the scheduler loop sees a cancellation only between poll
\* iterations: one that arrives while a retrain run is in progress does not
\* interrupt the run (TRAIN and SAVE finish first); the loop stops after it
C11_CancelOnlyBetweenPolls ==
    /\ sched.pc = "stopped" => retr.result # "interrupted"
    /\ sched.pc = "stopped" /\ fs[self_model_path].exists =>
           IsComplete(fs[self_model_path])

\* the lower-cased subject + ' ' + body of the e-mail of a call
TextOf(email_data) ==
    lower(Get(email_data, "subject", "")) \o " " \o lower(Get(email_data, "body", ""))

\* the hits of a list of phrases in a text
Hits(words, text) == Cardinality({i \in 1..Len(words) : Contains(text, words[i])})

HasSuspiciousTld(email_data) ==
    LET sender == lower(Get(email_data, "sender", ""))
    IN  \E i \in 1..Len(suspicious_tlds) : Contains(sender, suspicious_tlds[i])

NumLinks(email_data) ==
    LET body == lower(Get(email_data, "body", ""))
    IN  StrCount(body, "http://") + StrCount(body, "https://")

CountWhere(iocs, field, values) ==
    Cardinality({i \in 1..Len(iocs) : iocs[i][field] \in values})

\* the terms of the rule score other than the IP-literal heuristic
BaseScore(email_data, iocs) ==
    LET text == TextOf(email_data)
        u == Hits(urgency_words, text)
        k == Hits(suspicious_keywords, text)
        indicators == 10 * CountWhere(iocs, "ioc_type", {"md5", "sha1", "sha256"})
                      + 15 * CountWhere(iocs, "severity", {"high"})
                      + 8 * CountWhere(iocs, "severity", {"medium"})
        links == NumLinks(email_data)
    IN  (IF u >= 3 THEN 30 ELSE IF u \in {1, 2} THEN 15 ELSE 0)
        + (IF k >= 3 THEN 25 ELSE IF k \in {1, 2} THEN 10 ELSE 0)
        + (IF HasSuspiciousTld(email_data) THEN 35 ELSE 0)
        + (IF indicators > 40 THEN 40 ELSE indicators)
        + (IF links > 5 THEN 15 ELSE IF links \in 3..5 THEN 5 ELSE 0)

\* the sum of the rule score; the IP-literal heuristic as the code applies
\* it: an ipv4 indicator and 'http' in the text
RuleScore(email_data, iocs) ==
    BaseScore(email_data, iocs)
    + (IF /\ CountWhere(iocs, "ioc_type", {"ipv4"}) > 0
          /\ Contains(TextOf(email_data), "http")
       THEN 20 ELSE 0)

\* C12: detect_phishing_simple is true exactly when urgency (30 / 15 / 0)
\* + suspicious keywords (25 / 10 / 0) + 35 for a suspicious sender TLD
\* + indicators (10 per hash, 15 per high, 8 per medium, capped at 40)
\* + links (15 above 5, 5 for 3 to 5) + 20 for the IP-literal heuristic
\* reaches 50
C12_RuleScoreThreshold ==
    ret.fn = "rules" =>
        (ret.is_phishing <=> RuleScore(call.email_data, call.iocs) >= 50)

\* an e-mail whose sum is exactly 50 is called phishing, and one whose
\* indicators exceed the cap
C12_Witness ==
    /\ ret.fn = "rules"
    /\ ret.is_phishing
    /\ RuleScore(call.email_data, call.iocs) = 50
    /\ Len(call.iocs) = 3

\* C13: calculate_confidence_score is min(8u,25) + min(7k,20) + 20 for a
\* suspicious sender TLD + min(10h,20) + min(5m,15), u and k the urgency and
\* suspicious-keyword hits (of the function's own lists), h and m the high
\* and medium indicators, and lies in 0..100
C13_ConfidenceFormula ==
    ret.fn = "rules" =>
        LET text == TextOf(call.email_data)
            u == Hits(urgency_words, text)
            k == Hits(confidence_keywords, text)
            h == CountWhere(call.iocs, "severity", {"high"})
            m == CountWhere(call.iocs, "severity", {"medium"})
        IN  /\ ret.confidence_score =
                   (IF 8 * u < 25 THEN 8 * u ELSE 25)
                   + (IF 7 * k < 20 THEN 7 * k ELSE 20)
                   + (IF HasSuspiciousTld(call.email_data) THEN 20 ELSE 0)
                   + (IF 10 * h < 20 THEN 10 * h ELSE 20)
                   + (IF 5 * m < 15 THEN 5 * m ELSE 15)
            /\ ret.confidence_score \in 0..100

\* every part at its cap but the keywords: 5 urgency hits, 3 high indicators
C13_Witness ==
    /\ ret.fn = "rules"
    /\ Hits(urgency_words, TextOf(call.email_data)) = 5
    /\ CountWhere(call.iocs, "severity", {"high"}) = 3
    /\ ret.confidence_score >= 25 + 20 + 20

\* the table of C14
RiskTable(is_phishing, confidence) ==
    IF is_phishing /\ confidence >= 80 THEN "Critical"
    ELSE IF is_phishing /\ 60 <= confidence /\ confidence < 80 THEN "High"
    ELSE IF is_phishing /\ confidence < 60 THEN "Medium"
    ELSE IF ~is_phishing /\ confidence >= 40 THEN "Low"
    ELSE IF ~is_phishing /\ confidence < 40 THEN "Safe"
    ELSE None

\* C14: get_risk_level answers for every (is_phishing, confidence in
\* 0..100): Critical / High / Medium for phishing at >= 80 / 60..79 / < 60,
\* Low / Safe otherwise at >= 40 / < 40; (true,85) Critical, (true,65) High,
\* (true,50) Medium, (false,45) Low, (false,10) Safe
C14_RiskLevelTable ==
    /\ ret.fn = "get_risk_level" =>
           /\ ret.risk_level = RiskTable(call.is_phishing, call.confidence_score)
           /\ ret.risk_level \in {"Critical", "High", "Medium", "Low", "Safe"}
    /\ ret.fn = "rules" =>
           ret.risk_level = RiskTable(ret.is_phishing, ret.confidence_score)
    /\ get_risk_level(TRUE, 85) = "Critical"
    /\ get_risk_level(TRUE, 65) = "High"
    /\ get_risk_level(TRUE, 50) = "Medium"
    /\ get_risk_level(FALSE, 45) = "Low"
    /\ get_risk_level(FALSE, 10) = "Safe"

\* get_risk_level was called at a threshold
C14_Witness ==
    /\ ret.fn = "get_risk_level"
    /\ call.is_phishing
    /\ call.confidence_score = 80
    /\ ret.risk_level = "Critical"

\* the handler analysed the end-to-end example
ExampleAnalysed ==
    /\ call.fn = "analyze"
    /\ call.email_data = ExampleEmail
    /\ ret.fn = "analyze"

\* the indicators of the example: the link, the sender's address and the
\* domain of both
ExampleIocs ==
    <<[ioc_type |-> "url", ioc_value |-> "http://secure-bank.tk/login", severity |-> "high"],
      [ioc_type |-> "email", ioc_value |-> "security@secure-bank.tk", severity |-> "low"],
      [ioc_type |-> "domain", ioc_value |-> "secure-bank.tk", severity |-> "high"]>>

\* C15 as stated: analysed without a model, the example has the rule score
\* 120 (30 + 25 + 35 + 30), the verdict phishing, the confidence 71
\* (24 + 7 + 20 + 20) and the risk level High.
C15_ExampleAsStated ==
    ExampleAnalysed =>
        /\ RuleScore(ExampleEmail, ret.iocs) = 30 + 25 + 35 + 30
        /\ ret.is_phishing
        /\ ret.confidence_score = 24 + 7 + 20 + 20
        /\ ret.risk_level = "High"

\* C15 amended: the example has five urgency hits ('urgent', 'immediately',
\* 'action required', 'verify', and 'suspend' inside 'suspended'), so its
\* urgency part is min(5 * 8, 25) = 25 and its confidence is 72
\* (25 + 7 + 20 + 20); rule score 120, verdict phishing and risk level High
\* are as stated, on the indicators url (high), email (low), domain (high).
C15_ExampleConfidence72 ==
    ExampleAnalysed =>
        /\ ret.iocs = ExampleIocs
        /\ Hits(urgency_words, TextOf(ExampleEmail)) = 5
        /\ RuleScore(ExampleEmail, ret.iocs) = 30 + 25 + 35 + 30
        /\ ret.is_phishing
        /\ ret.confidence_score = 25 + 7 + 20 + 20
        /\ ret.risk_level = "High"

C15_Witness == ExampleAnalysed /\ ret.confidence_score = 72

\* some extracted URL holds an IPv4 literal
UrlHoldsIpLiteral(iocs) ==
    \E i \in 1..Len(iocs) :
        iocs[i].ioc_type = "url" /\ findall("ipv4", iocs[i].ioc_value) # <<>>

\* C16: the 20 points of the IP-literal heuristic are added only when a URL
\* contains an IPv4 literal; an e-mail whose ipv4 indicator is outside every
\* URL (a bare address next to an ordinary http link) does not get them.
C16_IpLiteralOnlyInsideUrl ==
    (call.fn = "analyze" /\ ret.fn = "analyze") =>
        ret.is_phishing =
            (BaseScore(call.email_data, ret.iocs)
             + (IF UrlHoldsIpLiteral(ret.iocs) THEN 20 ELSE 0) >= 50)

\* the value, in lower case, contains one of the suspicious top-level
\* domains
HoldsSuspiciousTld(value) ==
    \E tld \in {".tk", ".ml", ".ga", ".cf", ".gq", ".xyz", ".top"} :
        Contains(lower(value), tld)

\* the severity table of the indicator types
SeverityTable(ioc_type, value) ==
    CASE ioc_type \in {"md5", "sha1", "sha256"} -> "high"
      [] ioc_type = "ipv4" -> "medium"
      [] ioc_type = "url" -> IF HoldsSuspiciousTld(value) THEN "high" ELSE "medium"
      [] ioc_type = "domain" -> IF HoldsSuspiciousTld(value) THEN "high" ELSE "low"
      [] ioc_type = "email" -> "low"

\* C17: _determine_severity is the table of (type, value), on every call of
\* it and in every indicator that extract_from_email emits.
C17_SeverityIsTheTable ==
    /\ (call.fn = "_determine_severity" /\ ret.fn = "_determine_severity") =>
           ret.severity = SeverityTable(call.ioc_type, call.value)
    /\ (call.fn = "extract_from_email" /\ ret.fn = "extract_from_email") =>
           \A i \in 1..Len(ret.ioc_list) :
               ret.ioc_list[i].severity =
                   SeverityTable(ret.ioc_list[i].ioc_type, ret.ioc_list[i].ioc_value)

\* a URL whose suspicious top-level domain is written in capitals was rated
C17_Witness ==
    /\ call.fn = "_determine_severity" /\ ret.fn = "_determine_severity"
    /\ call.ioc_type = "url" /\ call.value = "HTTP://EVIL.XYZ/a"
    /\ ret.severity = "high"

\* the first position of a value in a list
FirstIndex(list, value) == Least({k \in 1..Len(list) : list[k] = value})

\* values holds each element of matches once, in the order of first
\* occurrence
FirstOccurrences(values, matches) ==
    /\ Range(values) = Range(matches)
    /\ \A a, b \in 1..Len(values) :
           a < b => FirstIndex(matches, values[a]) < FirstIndex(matches, values[b])

\* the parts of a text between the characters of a class
Split(t, class) ==
    LET cuts == {0, Len(t) + 1} \cup {i \in 1..Len(t) : Ch(t, i) \in class}
        cut(n) == CHOOSE c \in cuts : Cardinality({d \in cuts : d < c}) = n - 1
    IN  [n \in 1..(Cardinality(cuts) - 1) |-> Sub(t, cut(n) + 1, cut(n + 1) - 1)]

\* the words of a text: its parts between white space
Words(t) == Split(t, WhiteSpace)

\* the number a string of decimal digits denotes
RECURSIVE Decimal(_)
Decimal(s) ==
    IF s = "" THEN 0
    ELSE 10 * Decimal(SubSeq(s, 1, Len(s) - 1))
         + (CHOOSE d \in 0..9 : Digits[d + 1] = Ch(s, Len(s)))

\* a number 0..255 written with one to three decimal digits
IsByte(s) ==
    /\ Len(s) \in 1..3
    /\ \A i \in 1..Len(s) : Ch(s, i) \in DigitChars
    /\ Decimal(s) <= 255

\* four numbers 0..255 of one to three decimal digits, separated by dots
IsDottedQuad(s) ==
    \E d1, d2, d3 \in 1..Len(s) :
        /\ d1 < d2 /\ d2 < d3
        /\ {i \in 1..Len(s) : Ch(s, i) = "."} = {d1, d2, d3}
        /\ \A part \in {Sub(s, 1, d1 - 1), Sub(s, d1 + 1, d2 - 1),
                        Sub(s, d2 + 1, d3 - 1), Sub(s, d3 + 1, Len(s))} :
               IsByte(part)

\* the words of a list that are valid dotted quads, in order
RECURSIVE ValidQuads(_)
ValidQuads(words) ==
    IF words = <<>> THEN <<>>
    ELSE (IF IsDottedQuad(words[1]) THEN <<words[1]>> ELSE <<>>)
         \o ValidQuads(Tail(words))

\* the dotted quads read off the numbers of a run from the j-th on: four
\* numbers 0..255 in a row make a quad and the reading goes on behind it;
\* else it goes on at the next number
RECURSIVE QuadsFrom(_, _)
QuadsFrom(numbers, j) ==
    IF j + 3 > Len(numbers) THEN <<>>
    ELSE IF \A k \in j..(j + 3) : IsByte(numbers[k])
    THEN <<numbers[j] \o "." \o numbers[j + 1] \o "." \o numbers[j + 2]
                      \o "." \o numbers[j + 3]>>
         \o QuadsFrom(numbers, j + 4)
    ELSE QuadsFrom(numbers, j + 1)

RECURSIVE QuadsOfRuns(_)
QuadsOfRuns(runs) ==
    IF runs = <<>> THEN <<>>
    ELSE QuadsFrom(Split(runs[1], {"."}), 1) \o QuadsOfRuns(Tail(runs))

\* the dotted quads of a text, in order: those of each of its runs (the
\* parts between characters that are neither a dot nor a letter, a digit
\* or an underscore), read between the dots
DottedQuads(t) ==
    QuadsOfRuns(Split(t, {Ch(t, i) : i \in 1..Len(t)} \ (WordChars \cup {"."})))

\* the result of extract_iocs for a type: its list of values, <<>> when absent
ValuesOf(iocs, ioc_type) ==
    IF \E n \in 1..Len(iocs) : iocs[n].ioc_type = ioc_type
    THEN iocs[CHOOSE n \in 1..Len(iocs) : iocs[n].ioc_type = ioc_type].values
    ELSE <<>>

\* every type of the result once and with a value, and the values of a
\* type each once, in the order of the first occurrence among the matches
EachMatchOnce(iocs, text) ==
    /\ \A n, m \in 1..Len(iocs) :
           /\ iocs[n].values # <<>>
           /\ iocs[n].ioc_type = iocs[m].ioc_type => n = m
    /\ \A ioc_type \in Range(patterns) :
           LET values == ValuesOf(iocs, ioc_type)
           IN  /\ \A a, b \in 1..Len(values) : values[a] = values[b] => a = b
               /\ FirstOccurrences(values, findall(ioc_type, text))

\* C18 as stated: extract_iocs returns, for every type, each matched value
\* once and in the order of its first occurrence, and no entry for a type
\* without a match; a text holding k distinct valid dotted quads, however
\* often repeated and whatever else it holds, yields exactly these k ipv4
\* values in first-seen order.
C18_ValidQuadsAreTheIpv4Values ==
    (call.fn = "extract_iocs" /\ ret.fn = "extract_iocs") =>
        /\ EachMatchOnce(ret.iocs, call.text)
        /\ LET quads == ValidQuads(Words(call.text))
               ipv4 == ValuesOf(ret.iocs, "ipv4")
           IN  /\ Len(ipv4) = Cardinality(Range(quads))
               /\ FirstOccurrences(ipv4, quads)

\* C18, amended: extract_iocs returns, for every type, each matched value
\* once and in the order of its first occurrence, and no entry for a type
\* without a match.  The ipv4 values of any text are its distinct dotted
\* quads in first-seen order, a dotted quad being four numbers 0..255 in a
\* row, read between the dots of a run of dots, letters, digits and
\* underscores: a quad glued to such a character yields nothing, a longer
\* dotted sequence yields the quads it begins with.  A text all of whose
\* words are valid dotted quads, k of them distinct, yields exactly these
\* k values.
C18_EachMatchOnceInFirstSeenOrder ==
    (call.fn = "extract_iocs" /\ ret.fn = "extract_iocs") =>
        /\ EachMatchOnce(ret.iocs, call.text)
        /\ LET quads == DottedQuads(call.text)
               ipv4 == ValuesOf(ret.iocs, "ipv4")
           IN  /\ Len(ipv4) = Cardinality(Range(quads))
               /\ FirstOccurrences(ipv4, quads)
        /\ LET words == Words(call.text)
               ipv4 == ValuesOf(ret.iocs, "ipv4")
           IN  (\A n \in 1..Len(words) : IsDottedQuad(words[n])) =>
                   /\ Len(ipv4) = Cardinality(Range(words))
                   /\ FirstOccurrences(ipv4, words)

\* of six words, two are valid dotted quads; three ipv4 values came back,
\* the first of them cut out of a sequence of five numbers
C18_Witness ==
    /\ call.fn = "extract_iocs" /\ ret.fn = "extract_iocs"
    /\ call.text = "256.1.1.1 1.2.3.4.5 a1.2.3.4 1.2.3.4b 001.02.3.255 249.250.199.0"
    /\ Len(ValidQuads(Words(call.text))) = 2
    /\ ret.iocs = <<[ioc_type |-> "ipv4",
                     values |-> <<"1.2.3.4", "001.02.3.255", "249.250.199.0">>]>>

\* the feature names in lexicographic order
FeatureNames ==
    <<"avg_url_length", "avg_word_length", "body_length", "domain_ioc_count",
      "email_ioc_count", "has_attachments", "has_email_ioc", "has_hash_ioc",
      "has_ip_address", "has_ipv4_ioc", "has_shortened_url",
      "has_suspicious_keywords", "has_suspicious_tld", "has_urgency_words",
      "has_url_ioc", "ioc_total_count", "ipv4_ioc_count", "length",
      "max_url_length", "num_at_symbols", "num_attachments", "num_exclamation",
      "num_links", "num_question", "num_recipients", "num_sentences",
      "num_suspicious_keywords", "num_uppercase", "num_urgency_words",
      "num_words", "sender_has_numbers", "subject_length", "uppercase_ratio",
      "url_ioc_count">>

\* a row holds, at each position, the feature of that name of the e-mail
RowOf(row, email_data) ==
    LET features == extract_all_features(email_data)
    IN  /\ row.feature_names = FeatureNames
        /\ Len(row.feature_vector) = Len(FeatureNames)
        /\ \A n \in 1..Len(FeatureNames) :
               row.feature_vector[n] = features[FeatureNames[n]]

\* C19: extract_all_features returns the same feature names for every
\* e-mail, and training, inference and get_feature_vector order the values
\* lexicographically by name: a row has the same length and the same
\* feature at each position in all three.
C19_SameNamesSameOrder ==
    /\ \A a, b \in 1..Len(FeatureNames) : a < b => StrLess(FeatureNames[a], FeatureNames[b])
    /\ (call.fn = "extract_all_features" /\ ret.fn = "extract_all_features") =>
           DOMAIN ret.features = Range(FeatureNames)
    /\ (call.fn = "get_feature_vector" /\ ret.fn = "get_feature_vector") =>
           /\ ret.row.feature_names = FeatureNames
           /\ Len(ret.row.feature_vector) = Len(FeatureNames)
    /\ (call.fn = "predict" /\ ret.fn = "predict") => RowOf(ret.row, call.email_data)
    /\ (call.fn = "train_on_custom_data" /\ ret.fn = "train_on_custom_data") =>
           /\ \A n \in 1..Len(ret.rows) : RowOf(ret.rows[n], call.emails_data[n])
           /\ Len(ret.rows) = IF ret.error = None THEN Len(call.emails_data) ELSE 0
           /\ ret.returned = "True" => ret.error = None

\* a training run that passed the checks and returned True, on four
\* e-mails of which the first is a record of prepare_training_data and the
\* second has no key
C19_Witness ==
    /\ call.fn = "train_on_custom_data" /\ ret.fn = "train_on_custom_data"
    /\ Len(call.emails_data) = 4
    /\ SumSeq(call.labels) = 2
    /\ ret.returned = "True"
    /\ DOMAIN call.emails_data[1] = TrainingKeys
    /\ DOMAIN call.emails_data[2] = {}
    /\ Len(ret.rows) = 4
    /\ ret.rows[1].feature_names = ret.rows[2].feature_names
    /\ ret.rows[1].feature_vector # ret.rows[2].feature_vector

\* the value a missing key stands for
Defaults ==
    [sender |-> "", subject |-> "", body |-> "", recipients |-> <<>>,
     attachments |-> <<>>, headers |-> <<>>,
     ioc_count |-> 0, has_ipv4 |-> FALSE, has_url |-> FALSE, has_email |-> FALSE,
     has_hash |-> FALSE, ipv4_count |-> 0, url_count |-> 0, email_count |-> 0,
     domain_count |-> 0]

\* the e-mail with its missing keys filled in
Complete(email_data) == Merge(Defaults, email_data)

\* C20: extract_all_features, extract_from_email, detect_phishing_simple and
\* calculate_confidence_score return, for an e-mail with keys missing, the
\* full result they return for the e-mail with the empty string, the empty
\* list, zero or false in their place.
C20_MissingFieldsAreEmpty ==
    /\ (call.fn = "extract_all_features" /\ ret.fn = "extract_all_features") =>
           /\ DOMAIN ret.features = Range(FeatureNames)
           /\ ret.features = extract_all_features(Complete(call.email_data))
    /\ (call.fn = "extract_from_email" /\ ret.fn = "extract_from_email") =>
           ret.ioc_list = extract_from_email(Complete(call.email_data))
    /\ (call.fn = "rules" /\ ret.fn = "rules") =>
           LET email_data == ReadEmail(Complete(call.email_data), call.iocs)
           IN  /\ ret.is_phishing = detect_phishing_simple(email_data, call.iocs)
               /\ ret.confidence_score = calculate_confidence_score(email_data, call.iocs)

\* the features of an e-mail without any key
C20_Witness ==
    /\ call.fn = "extract_all_features" /\ ret.fn = "extract_all_features"
    /\ DOMAIN call.email_data = {}
    /\ ret.features.num_recipients = 0
    /\ ret.features.ioc_total_count = 0
    /\ ret.features.length = 1

(***************************************************************************)
(* C21: defang_url rewrites every "http://" to "hxxp://", every "https://" *)
(* to "hxxps://" and every "." to "[.]" and changes nothing else: the      *)
(* result holds no "http://", no "https://" and no "." outside "[.]", and  *)
(* it is the url with exactly those places rewritten, whatever the rest of *)
(* the state.                                                              *)
(***************************************************************************)
\* the positions of url that hold a "t" of a scheme to rewrite
SchemeTs(url) ==
    {i \in 1..Len(url) :
        \E j \in {i - 1, i - 2} : At(url, j, "http://") \/ At(url, j, "https://")}

\* where the i-th character of url stands in the result
DefangedPos(url, i) == i + 2 * Cardinality({k \in 1..(i - 1) : Ch(url, k) = "."})

C21_DefangRewritesSchemesAndDots ==
    ret # NoCall /\ ret.fn = "defang_url" =>
        /\ ~Contains(ret.defanged, "http://")
        /\ ~Contains(ret.defanged, "https://")
        /\ \A i \in 1..Len(ret.defanged) :
               Ch(ret.defanged, i) = "." =>
                   Ch(ret.defanged, i - 1) = "[" /\ Ch(ret.defanged, i + 1) = "]"
        /\ Len(ret.defanged) = DefangedPos(call.url, Len(call.url) + 1) - 1
        /\ \A i \in 1..Len(call.url) :
               IF Ch(call.url, i) = "."
               THEN At(ret.defanged, DefangedPos(call.url, i), "[.]")
               ELSE Ch(ret.defanged, DefangedPos(call.url, i))
                        = (IF i \in SchemeTs(call.url) THEN "x" ELSE Ch(call.url, i))
        /\ SystemAtRest

C21_Witness ==
    /\ ret # NoCall
    /\ ret.fn = "defang_url"
    /\ Contains(call.url, "http://")
    /\ Contains(call.url, "https://")
    /\ Contains(call.url, ".")
    /\ Contains(ret.defanged, "hxxps://")

(***************************************************************************)
(* C22: retrain_model never raises: a failure in any stage (opening the    *)
(* history store in CHECK or PREPARE_DATA, BACKUP, TRAIN or SAVE) makes    *)
(* the run return False, so that a scheduled run that fails does not end   *)
(* the scheduler loop.                                                     *)
(***************************************************************************)
C22_RetrainNeverRaises ==
    /\ retr.result # "raised"
    /\ sched.pc # "crashed"

(***************************************************************************)
(* C23: every (record, label) pair used for retraining comes from an       *)
(* e-mail whose analysis completed, and its label is the verdict stored    *)
(* for that e-mail: an e-mail without a verdict is never used as a         *)
(* training example.                                                       *)
(***************************************************************************)
C23_LabelsAreStoredVerdicts ==
    [][retr.pc = "prepare" /\ retr'.pc = "backup" =>
          \A i \in 1..Len(retr'.labels) :
              /\ emails[i].status = "completed"
              /\ emails[i].is_phishing = SqlBool(retr'.labels[i] = 1)]_vars

(***************************************************************************)
(* C24: for the same e-mail and the same extracted indicators, the         *)
(* structural feature values encoded at inference (upload_email calling    *)
(* predict) equal those encoded for the stored record at retraining        *)
(* (prepare_training_data feeding train_on_custom_data).                   *)
(***************************************************************************)
C24_SameFeaturesAtInferenceAndTraining ==
    (ret.fn = "train_on_custom_data" /\ ret.status = "completed") =>
        /\ ret.train_row.feature_names = ret.row.feature_names
        /\ ret.train_row.feature_vector = ret.row.feature_vector

(***************************************************************************)
(* C25: the outcome of check_if_retraining_needed does not depend on the   *)
(* number of new records: in every state it is (no live artifact exists)   *)
(* or (total record count >= min_new_emails).  So once the total has       *)
(* reached the minimum, every scheduled run proceeds to retrain, also     *)
(* when no record was added since the last training.                       *)
(***************************************************************************)
C25_CheckIgnoresNewCount ==
    /\ [](\A minimum \in 1..MaxMinNew, total \in 0..MaxEmails, exists \in BOOLEAN :
              \A new \in 0..total :
              check_if_retraining_needed(exists, new, total, minimum).should_retrain
                  <=> (~exists \/ total >= minimum))
    /\ [][CheckStep =>
              /\ retr'.result # "raised"
              /\ ~Exists(fs, self_model_path) \/ Len(emails) >= sched.minimum =>
                     retr'.pc \in {"check_new", "check_total", "prepare"}]_vars

(***************************************************************************)
(* C26: on the rule-based path, both scores computed from the same e-mail  *)
(* and indicator list, a not-phishing verdict always has confidence <= 45: *)
(* a confidence >= 46 always comes with is_phishing = true, and risk level *)
(* Low is produced only for confidence in [40, 45].                        *)
(***************************************************************************)
C26_NotPhishingConfidenceAtMost45 ==
    ret.fn = "rules" =>
        /\ ~ret.is_phishing => ret.confidence_score <= 45
        /\ ret.confidence_score >= 46 => ret.is_phishing
        /\ ret.risk_level = "Low" =>
               ~ret.is_phishing /\ ret.confidence_score \in 40..45

\* the bound is reached: a not-phishing verdict with confidence 45
C26_Witness ==
    /\ ret.fn = "rules"
    /\ ~ret.is_phishing
    /\ ret.confidence_score = 45
    /\ ret.risk_level = "Low"
    /\ phishing_score(ReadEmail(call.email_data, call.iocs), call.iocs) < 50

(***************************************************************************)
(* C27: every e-mail record that upload_email commits with status          *)
(* 'analyzing' eventually reaches status 'completed' with a stored         *)
(* verdict, or is marked as failed: no failure after the first commit      *)
(* leaves the record in 'analyzing' forever.                               *)
(***************************************************************************)
C27_AnalyzingEventuallySettled ==
    \A i \in 1..MaxEmails :
        (Len(emails) >= i /\ emails[i].status = "analyzing")
            ~> (/\ Len(emails) >= i
                /\ \/ emails[i].status = "completed" /\ emails[i].is_phishing # Null
                   \/ emails[i].status = "failed")

(***************************************************************************)
(* C28: each retrain run that backs up an existing artifact creates a new  *)
(* backup file and never overwrites an earlier backup: the file it writes  *)
(* did not exist before and holds the bytes that were live just before     *)
(* the run wrote it, also when two runs start within the same clock        *)
(* second (so that n such runs leave n backup files).                      *)
(***************************************************************************)
C28_BackupNeverOverwrites ==
    [][/\ retr.pc = "backup" /\ retr'.pc = "copying" =>
              ~Exists(fs, retr'.backup_path)
       /\ retr.pc = "copying" /\ retr'.pc = "train" =>
              /\ Exists(fs', retr.backup_path)
              /\ Bytes(fs'[retr.backup_path]) = Bytes(fs[self_model_path])]_vars

(***************************************************************************)
(* C29: if the artifact file exists when the serving process starts but    *)
(* cannot be loaded (truncated, for example read during or after an        *)
(* interrupted save), the process still starts with the model marked       *)
(* unavailable, and every later detection request returns a rule-based     *)
(* verdict rather than an error.                                           *)
(***************************************************************************)
C29_UnloadableArtifactRuleOnly ==
    /\ [](fs[model_path].exists /\ ~IsComplete(fs[model_path]) =>
              /\ load_model(fs[model_path]).raised # None
              /\ ModuleLoad(fs[model_path]).up
              /\ ModuleLoad(fs[model_path]).model_found
              /\ ~ModuleLoad(fs[model_path]).ml_model_available)
    /\ [](srv.up /\ srv.model_found /\ ~srv.ml_model_available =>
              srv.ml_model = NewModel)
    /\ [][DetectionAnswers /\ srv.model_found /\ ~srv.ml_model_available =>
              /\ resp'.status = 201
              /\ resp'.inference = "not attempted"
              /\ resp'.is_phishing = RuleVerdict(resp')
              /\ resp'.confidence_score = float(RuleConfidence(resp'))
              /\ resp'.risk_level = get_risk_level(RuleVerdict(resp'), RuleConfidence(resp'))
              /\ resp'.ml_prediction.model_version = "rule-based-v1.0"
              /\ emails'[resp'.email_id].status = "completed"]_vars

\* a process that started on a truncated artifact answered a phishing
\* e-mail by the rules
C29_Witness ==
    /\ srv.up
    /\ srv.model_found
    /\ ~srv.ml_model_available
    /\ resp.status = 201
    /\ resp.inference = "not attempted"
    /\ resp.is_phishing
    /\ resp.ml_prediction.model_version = "rule-based-v1.0"

(***************************************************************************)
(* C30: in the training set assembled by prepare_training_data, a          *)
(* record's has_hash flag is true exactly when the e-mail has at least one *)
(* indicator of a hash type (md5, sha1 or sha256), each per-type count     *)
(* equals the number of the e-mail's indicators of that type, and          *)
(* ioc_count equals the total number of its indicators.                    *)
(***************************************************************************)
C30_SummaryMatchesIndicators ==
    ret.fn = "train_on_custom_data" =>
        /\ ret.email_data.has_hash
               = (CountWhere(ret.iocs, "ioc_type", {"md5", "sha1", "sha256"}) > 0)
        /\ ret.email_data.ipv4_count = CountWhere(ret.iocs, "ioc_type", {"ipv4"})
        /\ ret.email_data.url_count = CountWhere(ret.iocs, "ioc_type", {"url"})
        /\ ret.email_data.email_count = CountWhere(ret.iocs, "ioc_type", {"email"})
        /\ ret.email_data.domain_count = CountWhere(ret.iocs, "ioc_type", {"domain"})
        /\ ret.email_data.ioc_count = Len(ret.iocs)

====
